---- MODULE Spec2Model ----
(***************************************************************************)
(* A model of the HCL2 semantic binder of pkg/codegen/hcl2/model:          *)
(* BindProgram (declare, sort, load schemas, bind nodes), the per-node     *)
(* bind state machine, and the expression binder.                          *)
(***************************************************************************)
EXTENDS Integers, Sequences, FiniteSets, TLC

VARIABLES
    decls,           \* the parsed input: the top-level declarations of all files
    pc,              \* BindProgram's position: declare, sort, load, bind, done
    fileIdx,         \* the next file declareNodes is called on
    root,            \* b.root: name -> node (a node is the index of its declaration)
    diagnostics,     \* BindProgram's local `diagnostics`
    nodes,           \* BindProgram's local `nodes`
    loadIdx,         \* position of the schema-loading loop in nodes
    bindIdx,         \* position of the binding loop in nodes
    state,           \* node -> bindState
    inputTypeOf,     \* Resource.InputType (NoType for the other kinds)
    typeOf,          \* Node.Type(): OutputType, typ or VariableType
    stack,           \* b.stack
    frames,          \* the active bindNode calls, outermost first
    binderRuns,      \* node -> number of times its kind-specific binder ran
    packageSchemas,  \* b.packageSchemas: the package names in the cache
    host,            \* the provider host: package -> outcome of loading it
    hostCalls,       \* package -> number of host.Provider calls in this bind
    ret,             \* what BindProgram returned
    run,             \* the number of the BindProgram call on this input
    prev,            \* what the previous BindProgram call on this input returned
    lastBound,       \* what Program.BindExpression returned last, if it was called
    applied          \* the type operation applied last: its operands and its result

vars == <<decls, pc, fileIdx, root, diagnostics, nodes, loadIdx, bindIdx, state,
          inputTypeOf, typeOf, stack, frames, binderRuns, packageSchemas, host,
          hostCalls, ret, run, prev, lastBound, applied>>

-----------------------------------------------------------------------------
(* Bounds of the input space. *)

MaxDecls == 2   \* declarations in a program of the declaration and schema families
MaxFiles == 2   \* files the declarations are spread over
MaxNodes == 3   \* declarations in a program of the reference-graph family
MaxRefs == 3    \* references in a program of the reference-graph family

(* bindState, program.go *)
unbound == 0
binding == 1
bound == 2

AllNames == <<"a", "b", "c", "d", "e">>
Kinds == {"config", "local", "resource", "output"}

-----------------------------------------------------------------------------
(* Types.  A type is a tuple whose first element is its variant.  NoType   *)
(* is Go's nil Type: the zero value of a Type field never assigned.        *)

NoType == <<"nil">>
AnyType == <<"Any">>
BoolType == <<"Bool">>
IntType == <<"Int">>
NumberType == <<"Number">>
StringType == <<"String">>
ArchiveType == <<"Archive">>
AssetType == <<"Asset">>
NoneType == <<"None">>
NewOptionalType(t) == <<"Optional", t>>
NewOutputType(t) == <<"Output", t>>
NewPromiseType(t) == <<"Promise", t>>
NewArrayType(t) == <<"Array", t>>
NewMapType(t) == <<"Map", t>>
NewObjectType(properties) == <<"Object", properties>>
NewUnionType(ts) == <<"Union", ts>>

-----------------------------------------------------------------------------
(* Syntax.  Source ranges: a declaration's file is the rank of its file    *)
(* name in lexicographic order, its bytes follow from its position.        *)

Filename(n) == decls[n].file
StartByte(n) == decls[n].start
EndByte(n) == decls[n].start + 5

(* hclsyntax nodes: a tuple whose first element is the node's variant.     *)
(* A literal carries the cty type of its value and, for a string, the      *)
(* string; a traversal is the list of its steps after the root.            *)
Lit(ctyType, val) == <<"lit", ctyType, val>>
StringLit(val) == Lit("string", val)
NullLit == Lit("null", "")
ScopeTraversal(rootName, traversal) == <<"scope", rootName, traversal>>
RelativeTraversal(source, traversal) == <<"rel", source, traversal>>
TupleCons(exprs) == <<"tuple", exprs>>
ObjectCons(items) == <<"object", items>>
ObjectConsKey(wrapped, forceNonLiteral) == <<"objkey", wrapped, forceNonLiteral>>
FunctionCall(name, args) == <<"call", name, args>>
Template(parts) == <<"template", parts>>
TemplateJoin(tuple) == <<"join", tuple>>
TemplateWrap(wrapped) == <<"wrap", wrapped>>
TraverseAttr(name) == <<"attr", "string", name>>
TraverseIndex(ctyType, val) == <<"idx", ctyType, val>>
NotImplementedForms == {"anon", "binop", "cond", "for", "index", "splat", "unary"}

(* tokens are kept as the list strings.Split(tok, ":") gives *)
BucketToken == <<"aws", "s3", "Bucket">>
NoSuchTypeToken == <<"aws", "s3", "Nope">>
InstanceToken == <<"gcp", "compute", "Instance">>
NotAToken == <<"not-a-token">>
FourPartToken == <<"a", "b", "c", "d">>
DiskToken == <<"gcp", "compute", "Disk">>
Tokens == {BucketToken, NoSuchTypeToken, InstanceToken, NotAToken, FourPartToken}

-----------------------------------------------------------------------------
(* sort.Slice on fewer than 7 elements is an insertion sort; `less` is a   *)
(* function on pairs of elements.                                          *)

Swap(s, i, j) == [s EXCEPT ![i] = s[j], ![j] = s[i]]

RECURSIVE InsertLeft(_, _, _)
InsertLeft(s, j, less) ==
    IF j > 1 /\ less[<<s[j], s[j - 1]>>]
    THEN InsertLeft(Swap(s, j, j - 1), j - 1, less)
    ELSE s

RECURSIVE InsertFrom(_, _, _)
InsertFrom(s, i, less) ==
    IF i > Len(s) THEN s ELSE InsertFrom(InsertLeft(s, i, less), i + 1, less)

sortSlice(s, less) == InsertFrom(s, 2, less)

Range(s) == {s[i] : i \in 1..Len(s)}

(* the orders a Go map of the elements of S can be iterated in *)
Perms(S) ==
    {p \in [1..Cardinality(S) -> S] : \A i, j \in 1..Cardinality(S) : p[i] = p[j] => i = j}

Ids == 1..Len(decls)

sourceOrderBlocks(blocks) ==
    sortSlice(blocks, [p \in Ids \X Ids |-> StartByte(p[1]) < StartByte(p[2])])

sourceOrderAttributes(attrs) ==
    sortSlice(attrs, [p \in Ids \X Ids |-> StartByte(p[1]) < EndByte(p[2])])

(* the nodes left in the order they came in *)
unsorted(ns) == ns

lessNodes ==
    [p \in Ids \X Ids |->
        Filename(p[1]) < Filename(p[2]) \/ StartByte(p[1]) < StartByte(p[2])]
sourceOrderNodes(ns) == sortSlice(ns, lessNodes)

-----------------------------------------------------------------------------
(* Type operations. *)

IsOptionalType(t) == t[1] = "Optional"

(* an AssignableFrom that takes an Optional source for its element alone *)
RECURSIVE assignableFromElement(_, _)
assignableFromElement(dst, src) ==
    IF dst = AnyType \/ src = AnyType THEN TRUE
    ELSE IF dst = NoType \/ src = NoType THEN FALSE
    ELSE IF src[1] = "Optional" THEN assignableFromElement(dst, src[2])
    ELSE IF src[1] = "Union"
    THEN \A i \in 1..Len(src[2]) : assignableFromElement(dst, src[2][i])
    ELSE IF dst[1] = "Optional"
    THEN src = NoneType \/ assignableFromElement(dst[2], src)
    ELSE IF dst[1] = "Union"
    THEN \E i \in 1..Len(dst[2]) : assignableFromElement(dst[2][i], src)
    ELSE IF dst[1] \in {"Array", "Map", "Output", "Promise"}
    THEN src[1] = dst[1] /\ assignableFromElement(dst[2], src[2])
    ELSE IF dst[1] = "Object"
    THEN /\ src[1] = "Object"
         /\ \A k \in DOMAIN dst[2] :
                ~IsOptionalType(dst[2][k])
                    => k \in DOMAIN src[2] /\ assignableFromElement(dst[2][k], src[2][k])
    ELSE dst = src

(* an AssignableFrom that takes an Object only from an Object of the same *)
(* property names                                                          *)
RECURSIVE assignableFromSameNames(_, _)
assignableFromSameNames(dst, src) ==
    IF dst = AnyType \/ src = AnyType THEN TRUE
    ELSE IF dst = NoType \/ src = NoType THEN FALSE
    ELSE IF src[1] = "Optional"
    THEN assignableFromSameNames(dst, src[2]) /\ assignableFromSameNames(dst, NoneType)
    ELSE IF src[1] = "Union"
    THEN \A i \in 1..Len(src[2]) : assignableFromSameNames(dst, src[2][i])
    ELSE IF dst[1] = "Optional"
    THEN src = NoneType \/ assignableFromSameNames(dst[2], src)
    ELSE IF dst[1] = "Union"
    THEN \E i \in 1..Len(dst[2]) : assignableFromSameNames(dst[2][i], src)
    ELSE IF dst[1] \in {"Array", "Map", "Output", "Promise"}
    THEN src[1] = dst[1] /\ assignableFromSameNames(dst[2], src[2])
    ELSE IF dst[1] = "Object"
    THEN /\ src[1] = "Object"
         /\ DOMAIN dst[2] = DOMAIN src[2]
         /\ \A k \in DOMAIN dst[2] :
                ~IsOptionalType(dst[2][k]) => assignableFromSameNames(dst[2][k], src[2][k])
    ELSE dst = src

(* T.AssignableFrom(src), by the assignability rules: an Object accepts an *)
(* Object that has every property it requires (every property whose type   *)
(* is not Optional), with an assignable type                               *)
RECURSIVE AssignableFrom(_, _)
AssignableFrom(dst, src) ==
    IF dst = AnyType \/ src = AnyType THEN TRUE
    ELSE IF dst = NoType \/ src = NoType THEN FALSE
    ELSE IF src[1] = "Optional"
    THEN AssignableFrom(dst, src[2]) /\ AssignableFrom(dst, NoneType)
    ELSE IF src[1] = "Union"
    THEN \A i \in 1..Len(src[2]) : AssignableFrom(dst, src[2][i])
    ELSE IF dst[1] = "Optional"
    THEN src = NoneType \/ AssignableFrom(dst[2], src)
    ELSE IF dst[1] = "Union"
    THEN \E i \in 1..Len(dst[2]) : AssignableFrom(dst[2][i], src)
    ELSE IF dst[1] \in {"Array", "Map", "Output", "Promise"}
    THEN src[1] = dst[1] /\ AssignableFrom(dst[2], src[2])
    ELSE IF dst[1] = "Object"
    THEN /\ src[1] = "Object"
         /\ \A k \in DOMAIN dst[2] :
                ~IsOptionalType(dst[2][k])
                    => k \in DOMAIN src[2] /\ AssignableFrom(dst[2][k], src[2][k])
    ELSE dst = src

(* map[string]Type built by assigning, in order, to each property's name  *)
(* the type at the property's index                                        *)
PropertyMap(props, types) ==
    [k \in {props[i].name : i \in 1..Len(props)} |->
        types[CHOOSE i \in 1..Len(props) :
            /\ props[i].name = k
            /\ \A j \in 1..Len(props) : props[j].name = k => j <= i]]

(* A schema type is a tuple whose first element is its variant:            *)
(* array, map, object, token, union, or the name of a primitive.           *)
RECURSIVE schemaTypeToType(_, _)
schemaTypeToType(src, wrapInput) ==
    LET wrap(dst) == IF wrapInput THEN NewUnionType(<<dst, NewOutputType(dst)>>) ELSE dst
        optional(prop) ==
            IF prop.required
            THEN schemaTypeToType(prop.type, wrapInput)
            ELSE NewOptionalType(schemaTypeToType(prop.type, wrapInput))
    IN  CASE src[1] = "array" -> wrap(NewArrayType(schemaTypeToType(src[2], wrapInput)))
          [] src[1] = "map" -> wrap(NewMapType(schemaTypeToType(src[2], wrapInput)))
          [] src[1] = "object" ->
                wrap(NewObjectType(PropertyMap(src[2],
                        [i \in 1..Len(src[2]) |-> optional(src[2][i])])))
          [] src[1] = "token" ->
                IF src[3] = <<"none">>
                THEN wrap(<<"Token", src[2]>>)
                ELSE NewUnionType(<<wrap(<<"Token", src[2]>>),
                                    schemaTypeToType(src[3], wrapInput)>>)
          [] src[1] = "union" ->
                IF Len(src[2]) = 0 THEN NoType
                ELSE IF Len(src[2]) = 1 THEN schemaTypeToType(src[2][1], wrapInput)
                ELSE wrap(NewUnionType([i \in 1..Len(src[2]) |->
                                            schemaTypeToType(src[2][i], wrapInput)]))
          [] src[1] = "bool" -> wrap(BoolType)
          [] src[1] = "int" -> wrap(IntType)
          [] src[1] = "number" -> wrap(NumberType)
          [] src[1] = "string" -> wrap(StringType)
          [] src[1] = "archive" -> wrap(ArchiveType)
          [] src[1] = "asset" -> wrap(AssetType)
          [] src[1] = "any" -> AnyType
          [] OTHER -> wrap(NoType)

-----------------------------------------------------------------------------
(* Diagnostics: the message and the subject, the source range it points at: *)
(* a node's range, or the syntax (the traversal step) that has the range.  *)

NodeRange(n) == <<"node", n>>

Diag(msg, subject) == <<msg, subject>>
notYetImplemented(subject) == <<Diag("NYI", subject)>>
malformedToken(subject) == Diag("malformed token", subject)
(* a bindNode that returns from a node in the binding state in silence *)
silentReturn(subject) == <<"", subject>>
circularReference(subject) == Diag("circular reference to node", subject)
unknownPackage(subject) == Diag("unknown package", subject)
unknownResourceType(subject) == Diag("unknown resource type", subject)
exprNotAssignable(subject) == Diag("cannot assign expression", subject)
objectKeysMustBeStrings(subject) == Diag("object keys must be strings", subject)
unsupportedLiteralValue(subject) == Diag("unsupported literal value", subject)
unknownFunction(subject) == Diag("unknown function", subject)
missingRequiredArgument(subject) == Diag("missing required parameter", subject)
extraArguments(subject) == Diag("too many arguments to call", subject)
unsupportedIndexKey(subject) == Diag("keys must be strings or numbers", subject)
unsupportedMapKey(subject) == Diag("map keys must be strings", subject)
unsupportedArrayIndex(subject) == Diag("array indexes must be numbers", subject)
unsupportedObjectProperty(subject) == Diag("object properties must be strings", subject)
unknownObjectProperty(subject) == Diag("unknown property", subject)
unsupportedReceiverType(subject) == Diag("cannot index value", subject)
undefinedVariable(subject) == Diag("undefined variable", subject)
alreadyDeclared(subject) == Diag("already declared", subject)

HasDiag(ds, msg) == \E i \in 1..Len(ds) : ds[i][1] = msg
CountDiag(ds, msg) == Cardinality({i \in 1..Len(ds) : ds[i][1] = msg})

RECURSIVE Flatten(_)
Flatten(seqs) == IF Len(seqs) = 0 THEN <<>> ELSE Head(seqs) \o Flatten(Tail(seqs))

-----------------------------------------------------------------------------
(* Traversal typing, the revision bindExpression calls (program.go).       *)

(* a bindIndexType that hands back what the element gives, not re-wrapped *)
RECURSIVE bindIndexTypeUnwrapped(_, _)
bindIndexTypeUnwrapped(receiver, index) ==
    CASE receiver[1] \in {"Optional", "Output", "Promise"} ->
            bindIndexTypeUnwrapped(receiver[2], index)
      [] receiver[1] = "Map" ->
            [t |-> receiver[2],
             d |-> IF index[2] # "string" THEN <<unsupportedMapKey(index)>> ELSE <<>>]
      [] receiver[1] = "Array" ->
            [t |-> receiver[2],
             d |-> IF index[2] # "number" THEN <<unsupportedArrayIndex(index)>> ELSE <<>>]
      [] receiver[1] = "Object" ->
            IF index[2] # "string"
            THEN [t |-> AnyType, d |-> <<unsupportedObjectProperty(index)>>]
            ELSE IF index[3] \notin DOMAIN receiver[2]
            THEN [t |-> AnyType, d |-> <<unknownObjectProperty(index)>>]
            ELSE [t |-> receiver[2][index[3]], d |-> <<>>]
      [] OTHER ->
            IF receiver = AnyType
            THEN [t |-> AnyType, d |-> <<>>]
            ELSE [t |-> AnyType, d |-> <<unsupportedReceiverType(index)>>]

RECURSIVE bindIndexType(_, _)
bindIndexType(receiver, index) ==
    CASE receiver[1] = "Optional" ->
            LET r == bindIndexType(receiver[2], index)
            IN  [t |-> NewOptionalType(r.t), d |-> r.d]
      [] receiver[1] = "Output" ->
            LET r == bindIndexType(receiver[2], index)
            IN  [t |-> NewOutputType(r.t), d |-> r.d]
      [] receiver[1] = "Promise" ->
            LET r == bindIndexType(receiver[2], index)
            IN  [t |-> NewPromiseType(r.t), d |-> r.d]
      [] receiver[1] = "Map" ->
            [t |-> receiver[2],
             d |-> IF index[2] # "string" THEN <<unsupportedMapKey(index)>> ELSE <<>>]
      [] receiver[1] = "Array" ->
            [t |-> receiver[2],
             d |-> IF index[2] # "number" THEN <<unsupportedArrayIndex(index)>> ELSE <<>>]
      [] receiver[1] = "Object" ->
            IF index[2] # "string"
            THEN [t |-> AnyType, d |-> <<unsupportedObjectProperty(index)>>]
            ELSE IF index[3] \notin DOMAIN receiver[2]
            THEN [t |-> AnyType, d |-> <<unknownObjectProperty(index)>>]
            ELSE [t |-> receiver[2][index[3]], d |-> <<>>]
      [] OTHER ->
            IF receiver = AnyType
            THEN [t |-> AnyType, d |-> <<>>]
            ELSE [t |-> AnyType, d |-> <<unsupportedReceiverType(index)>>]

RECURSIVE bindTraversalFrom(_, _, _, _)
bindTraversalFrom(receiver, traversal, i, diags) ==
    IF i > Len(traversal) THEN [t |-> receiver, d |-> diags]
    ELSE IF traversal[i][2] \notin {"number", "string"}
    THEN [t |-> AnyType, d |-> <<unsupportedIndexKey(traversal[i])>>]
    ELSE LET r == bindIndexType(receiver, traversal[i])
         IN  bindTraversalFrom(r.t, traversal, i + 1, diags \o r.d)

bindTraversalType(receiver, traversal) == bindTraversalFrom(receiver, traversal, 1, <<>>)

-----------------------------------------------------------------------------
(* Traversal typing, the revision of binder_traversal.go: the key of a     *)
(* step is checked by its type, and a key not known yet has cty.DynamicVal *)
(* for its value.                                                          *)

ctyTypeToType(ctyType) ==
    CASE ctyType = "bool" -> BoolType
      [] ctyType = "number" -> NumberType
      [] ctyType = "string" -> StringType
      [] OTHER -> AnyType

(* inputType(t): t or an Output of it *)
inputTypeFor(t) == NewUnionType(<<t, NewOutputType(t)>>)

RECURSIVE bindIndexType4(_, _, _, _)
bindIndexType4(receiver, indexType, indexVal, indexRange) ==
    CASE receiver[1] = "Optional" ->
            LET r == bindIndexType4(receiver[2], indexType, indexVal, indexRange)
            IN  [t |-> NewOptionalType(r.t), d |-> r.d]
      [] receiver[1] = "Output" ->
            LET r == bindIndexType4(receiver[2], indexType, indexVal, indexRange)
            IN  [t |-> NewOutputType(r.t), d |-> r.d]
      [] receiver[1] = "Promise" ->
            LET r == bindIndexType4(receiver[2], indexType, indexVal, indexRange)
            IN  [t |-> NewPromiseType(r.t), d |-> r.d]
      [] receiver[1] = "Map" ->
            [t |-> receiver[2],
             d |-> IF ~AssignableFrom(inputTypeFor(StringType), indexType)
                   THEN <<unsupportedMapKey(indexRange)>> ELSE <<>>]
      [] receiver[1] = "Array" ->
            [t |-> receiver[2],
             d |-> IF ~AssignableFrom(inputTypeFor(NumberType), indexType)
                   THEN <<unsupportedArrayIndex(indexRange)>> ELSE <<>>]
      [] receiver[1] = "Object" ->
            IF ~AssignableFrom(inputTypeFor(StringType), indexType)
            THEN [t |-> AnyType, d |-> <<unsupportedObjectProperty(indexRange)>>]
            ELSE IF indexVal[2] = "dynamic"
            THEN [t |-> AnyType, d |-> <<>>]
            ELSE IF indexVal[3] \notin DOMAIN receiver[2]
            THEN [t |-> AnyType, d |-> <<unknownObjectProperty(indexRange)>>]
            ELSE [t |-> receiver[2][indexVal[3]], d |-> <<>>]
      [] OTHER ->
            IF receiver = AnyType
            THEN [t |-> AnyType, d |-> <<>>]
            ELSE [t |-> AnyType, d |-> <<unsupportedReceiverType(indexRange)>>]

RECURSIVE bindTraversalTypesFrom(_, _, _, _)
bindTraversalTypesFrom(types, traversal, i, diags) ==
    IF i > Len(traversal) THEN [types |-> types, d |-> diags]
    ELSE LET index == traversal[i]
             r == bindIndexType4(types[Len(types)], ctyTypeToType(index[2]), index, index)
         IN  bindTraversalTypesFrom(Append(types, r.t), traversal, i + 1, diags \o r.d)

bindTraversalTypes(receiver, traversal) ==
    bindTraversalTypesFrom(<<receiver>>, traversal, 1, <<>>)

-----------------------------------------------------------------------------
(* Builtin functions (functions.go). *)

NoFunction == [found |-> FALSE, parameters |-> <<>>, varargs |-> FALSE,
               varargsType |-> NoType, returnType |-> NoType]

getFunctionDefinition(name) ==
    CASE name = "fileAsset" ->
            [found |-> TRUE, parameters |-> <<[name |-> "path", typ |-> StringType]>>,
             varargs |-> FALSE, varargsType |-> NoType, returnType |-> AssetType]
      [] name = "mimeType" ->
            [found |-> TRUE, parameters |-> <<[name |-> "path", typ |-> StringType]>>,
             varargs |-> FALSE, varargsType |-> NoType, returnType |-> StringType]
      [] name = "toJSON" ->
            [found |-> TRUE, parameters |-> <<[name |-> "value", typ |-> AnyType]>>,
             varargs |-> FALSE, varargsType |-> NoType, returnType |-> StringType]
      [] OTHER -> NoFunction

Builtins == {"fileAsset", "mimeType", "toJSON"}

-----------------------------------------------------------------------------
(* Bound expressions: the variant, the resolved type (NoType when the      *)
(* field was never set), the bound children, and a literal's value.        *)

Expr(kind, syntax, type, children, value) ==
    [kind |-> kind, syntax |-> syntax, type |-> type, children |-> children,
     value |-> value]

(* a placeholder whose type is left unset *)
untypedPlaceholder(syntax) == Expr("Error", syntax, NoType, <<>>, <<>>)

ErrorExpression(syntax) == Expr("Error", syntax, AnyType, <<>>, <<>>)

(* the parameter loop and the check for extra arguments of a call *)
RECURSIVE checkParameters(_, _, _, _)
checkParameters(syntax, parameters, remainingArgs, diags) ==
    IF Len(parameters) = 0 THEN [rest |-> remainingArgs, d |-> diags]
    ELSE IF Len(remainingArgs) = 0
    THEN checkParameters(syntax, Tail(parameters), remainingArgs,
            IF ~IsOptionalType(Head(parameters).typ)
            THEN Append(diags, missingRequiredArgument(syntax)) ELSE diags)
    ELSE checkParameters(syntax, Tail(parameters), Tail(remainingArgs),
            IF ~AssignableFrom(Head(parameters).typ, Head(remainingArgs).type)
            THEN Append(diags, exprNotAssignable(Head(remainingArgs).syntax)) ELSE diags)

(* a check that reports every argument beyond the parameters *)
reportEachExtraArgument(syntax, signature, remainingArgs) ==
    [i \in 1..Len(remainingArgs) |-> extraArguments(syntax)]

checkExtraArguments(syntax, signature, remainingArgs) ==
    IF Len(remainingArgs) = 0 THEN <<>>
    ELSE IF ~signature.varargs THEN <<extraArguments(syntax)>>
    ELSE Flatten([i \in 1..Len(remainingArgs) |->
            IF ~AssignableFrom(signature.varargsType, remainingArgs[i].type)
            THEN <<exprNotAssignable(remainingArgs[i].syntax)>> ELSE <<>>])

(* the element type of a tuple constructor *)
RECURSIVE tupleType(_, _, _)
tupleType(exprs, i, typ) ==
    IF i > Len(exprs) THEN typ
    ELSE IF typ = NoType THEN tupleType(exprs, i + 1, exprs[i].type)
    ELSE IF exprs[i].type # typ THEN AnyType
    ELSE tupleType(exprs, i + 1, typ)

(* an object type built from the literal string keys, the others left out *)
objectTypeOfLiteralKeys(items) ==
    LET lits == {i \in 1..Len(items) :
                    items[i].key.kind = "LiteralValue" /\ items[i].key.value[1] = "string"}
    IN  NewObjectType(
            [k \in {items[i].key.value[2] : i \in lits} |->
                items[CHOOSE i \in lits :
                    /\ items[i].key.value[2] = k
                    /\ \A j \in lits : items[j].key.value[2] = k => j <= i].val.type])

(* the type of an object constructor *)
objectType(items) ==
    IF \E i \in 1..Len(items) :
            items[i].key.kind # "LiteralValue" \/ items[i].key.value[1] # "string"
    THEN AnyType
    ELSE NewObjectType(
            [k \in {items[i].key.value[2] : i \in 1..Len(items)} |->
                items[CHOOSE i \in 1..Len(items) :
                    /\ items[i].key.value[2] = k
                    /\ \A j \in 1..Len(items) :
                            items[j].key.value[2] = k => j <= i].val.type])

ExprAsKeyword(wrapped) ==
    IF wrapped[1] = "scope" /\ Len(wrapped[3]) = 0 THEN wrapped[2] ELSE ""

bindLiteralValueExpression(syntax) ==
    CASE syntax[2] = "null" ->
            [x |-> Expr("LiteralValue", syntax, NoType, <<>>, <<"null", "">>), d |-> <<>>]
      [] syntax[2] = "bool" ->
            [x |-> Expr("LiteralValue", syntax, BoolType, <<>>, <<"bool", "">>), d |-> <<>>]
      [] syntax[2] = "number" ->
            [x |-> Expr("LiteralValue", syntax, NumberType, <<>>, <<"number", "">>), d |-> <<>>]
      [] syntax[2] = "string" ->
            [x |-> Expr("LiteralValue", syntax, StringType, <<>>, <<"string", syntax[3]>>),
             d |-> <<>>]
      [] OTHER ->
            [x |-> Expr("LiteralValue", syntax, AnyType, <<>>, <<"null", "">>),
             d |-> <<unsupportedLiteralValue(syntax)>>]

(* b is the binder: b.nodes (the root scope) and the nodes' current types *)
RECURSIVE bindExpression(_, _)
bindExpression(b, syntax) ==
    LET bindAll(ss) == [i \in 1..Len(ss) |-> bindExpression(b, ss[i])]
        exprsOf(rs) == [i \in 1..Len(rs) |-> rs[i].x]
        diagsOf(rs) == Flatten([i \in 1..Len(rs) |-> rs[i].d])
    IN
    CASE syntax[1] \in NotImplementedForms ->
            [x |-> ErrorExpression(syntax), d |-> notYetImplemented(syntax)]
      [] syntax[1] = "call" ->
            LET definition == getFunctionDefinition(syntax[2])
                rs == bindAll(syntax[3])
                args == exprsOf(rs)
                diags == (IF definition.found THEN <<>> ELSE <<unknownFunction(syntax)>>)
                            \o diagsOf(rs)
            IN  IF ~definition.found
                THEN [x |-> Expr("FunctionCall", syntax, AnyType, args, <<>>), d |-> diags]
                ELSE LET p == checkParameters(syntax, definition.parameters, args, diags)
                     IN  [x |-> Expr("FunctionCall", syntax, definition.returnType, args,
                                     <<>>),
                          d |-> p.d \o checkExtraArguments(syntax, definition, p.rest)]
      [] syntax[1] = "lit" -> bindLiteralValueExpression(syntax)
      [] syntax[1] = "object" ->
            LET rs == [i \in 1..Len(syntax[2]) |->
                        LET k == bindExpression(b, syntax[2][i][1])
                            v == bindExpression(b, syntax[2][i][2])
                        IN  [key |-> k.x, val |-> v.x,
                             d |-> k.d
                                   \o (IF ~AssignableFrom(StringType, k.x.type)
                                       THEN <<objectKeysMustBeStrings(k.x.syntax)>> ELSE <<>>)
                                   \o v.d]]
            IN  [x |-> Expr("ObjectCons", syntax, objectType(rs),
                            Flatten([i \in 1..Len(rs) |-> <<rs[i].key, rs[i].val>>]),
                            <<>>),
                 d |-> diagsOf(rs)]
      [] syntax[1] = "objkey" ->
            IF ~syntax[3] /\ ExprAsKeyword(syntax[2]) # ""
            THEN bindExpression(b, StringLit(ExprAsKeyword(syntax[2])))
            ELSE bindExpression(b, syntax[2])
      [] syntax[1] = "rel" ->
            LET source == bindExpression(b, syntax[2])
                r == bindTraversalType(source.x.type, syntax[3])
            IN  [x |-> Expr("RelativeTraversal", syntax, r.t, <<source.x>>, <<>>),
                 d |-> source.d \o r.d]
      [] syntax[1] = "scope" ->
            IF syntax[2] \notin DOMAIN b.nodes
            THEN [x |-> Expr("ScopeTraversal", syntax, AnyType, <<>>, <<>>),
                  d |-> <<undefinedVariable(<<"root", syntax[2]>>)>>]
            ELSE LET r == bindTraversalType(b.types[b.nodes[syntax[2]]], syntax[3])
                 IN  [x |-> Expr("ScopeTraversal", syntax, r.t, <<>>, <<>>), d |-> r.d]
      [] syntax[1] = "template" ->
            IF Len(syntax[2]) = 1 /\ syntax[2][1][1] = "lit"
            THEN bindExpression(b, syntax[2][1])
            ELSE LET rs == bindAll(syntax[2])
                 IN  [x |-> Expr("Template", syntax, NoType, exprsOf(rs), <<>>),
                      d |-> diagsOf(rs)]
      [] syntax[1] = "join" ->
            LET tuple == bindExpression(b, syntax[2])
            IN  [x |-> Expr("TemplateJoin", syntax, NoType, <<tuple.x>>, <<>>),
                 d |-> tuple.d]
      [] syntax[1] = "wrap" -> bindExpression(b, syntax[2])
      [] syntax[1] = "tuple" ->
            LET rs == bindAll(syntax[2])
            IN  [x |-> Expr("TupleCons", syntax, tupleType(exprsOf(rs), 1, NoType),
                            exprsOf(rs), <<>>),
                 d |-> diagsOf(rs)]

-----------------------------------------------------------------------------
(* The provider host and the package schemas it serves (external): aws has  *)
(* a Bucket, gcp an Instance and a Disk whose schema declares the output   *)
(* properties id, an integer, and tags.                                    *)

Packages == {"", "aws", "gcp"}
HostFailures == {"no provider", "GetSchema failed", "invalid JSON", "ImportSpec failed"}

StringProperty(name, required) == [name |-> name, type |-> <<"string">>, required |-> required]
Property(name, type) == [name |-> name, type |-> type, required |-> TRUE]

Schemas(pkg) ==
    CASE pkg = "aws" ->
            [t \in {BucketToken} |->
                [inputProperties |-> <<StringProperty("bucket", FALSE)>>,
                 properties |-> <<StringProperty("bucket", TRUE)>>]]
      [] pkg = "gcp" ->
            [t \in {InstanceToken, DiskToken} |->
                IF t = InstanceToken
                THEN [inputProperties |-> <<StringProperty("zone", TRUE)>>,
                      properties |-> <<StringProperty("zone", TRUE)>>]
                ELSE [inputProperties |-> <<>>,
                      properties |-> <<Property("id", <<"int">>),
                                       Property("tags", <<"array", <<"string">>>>)>>]]
      [] OTHER -> [t \in {} |-> 0]

-----------------------------------------------------------------------------
(* Declaring. *)

(* a define that replaces the node a name has *)
redefine(scope, name, node) ==
    [ok |-> TRUE,
     scope |-> [k \in DOMAIN scope \cup {name} |-> IF k = name THEN node ELSE scope[k]]]

define(scope, name, node) ==
    IF name \in DOMAIN scope
    THEN [ok |-> FALSE, scope |-> scope]
    ELSE [ok |-> TRUE,
          scope |-> [k \in DOMAIN scope \cup {name} |-> IF k = name THEN node ELSE scope[k]]]

declareNode(scope, name, n) ==
    LET r == define(scope, name, n)
    IN  IF ~r.ok
        THEN [scope |-> r.scope, d |-> <<alreadyDeclared(NodeRange(scope[name]))>>]
        ELSE [scope |-> r.scope, d |-> <<>>]

(* the labels of a block and of the config or outputs block around it; a  *)
(* declaration that does not say has the labels its kind asks for          *)
labelsOf(i) ==
    IF "labels" \in DOMAIN decls[i]
    THEN [own |-> decls[i].labels, outer |-> decls[i].outerLabels]
    ELSE [own |-> CASE decls[i].kind = "resource" -> 2
                    [] decls[i].kind = "local" -> 0
                    [] OTHER -> 1,
          outer |-> 0]

(* the label checks of declareNodes on a block: the diagnostics, and       *)
(* whether an index is out of range.  labelsErrorf reads LabelRanges[0] of *)
(* the block it is given, which for a variable is the config or outputs    *)
(* block around it; a resource is declared under Labels[0].                *)
labelDiagnostics(i) ==
    LET l == labelsOf(i)
        labelsErrorf(n, msg) == [d |-> <<Diag(msg, NodeRange(i))>>, panic |-> n = 0]
        none == [d |-> <<>>, panic |-> FALSE]
        both(a, b) == [d |-> a.d \o b.d, panic |-> a.panic \/ b.panic]
    IN  CASE decls[i].kind = "resource" ->
                both(IF l.own # 2
                     THEN labelsErrorf(l.own, "resource variables must have exactly two labels")
                     ELSE none,
                     [d |-> <<>>, panic |-> l.own = 0])
          [] decls[i].kind = "config" ->
                both(IF l.outer # 0
                     THEN labelsErrorf(l.outer, "config blocks do not support labels")
                     ELSE none,
                     IF l.own > 1
                     THEN labelsErrorf(l.outer,
                                       "config variables must have no more than one label")
                     ELSE none)
          [] decls[i].kind = "output" ->
                both(IF l.outer # 0
                     THEN labelsErrorf(l.outer, "outputs blocks do not support labels")
                     ELSE none,
                     IF l.own > 1
                     THEN labelsErrorf(l.outer,
                                       "output variables must have no more than one label")
                     ELSE none)
          [] OTHER -> none

RECURSIVE declareAll(_, _, _)
declareAll(order, scope, diags) ==
    IF Len(order) = 0 THEN [scope |-> scope, d |-> diags, panic |-> FALSE]
    ELSE IF labelDiagnostics(Head(order)).panic
    THEN [scope |-> scope, d |-> diags, panic |-> TRUE]
    ELSE LET r == declareNode(scope, decls[Head(order)].name, Head(order))
         IN  declareAll(Tail(order), r.scope,
                        diags \o labelDiagnostics(Head(order)).d \o r.d)

NumFiles == CHOOSE f \in 1..(MaxFiles + 1) :
                /\ \E i \in Ids : decls[i].file = f
                /\ \A i \in Ids : decls[i].file <= f

(* declareNodes(file): the blocks in source order, then the attributes *)
attributesOf(f) == {i \in Ids : decls[i].file = f /\ decls[i].kind = "local"}

declareNodes(scope, f, attrOrder) ==
    declareAll(sourceOrderBlocks(SelectSeq([i \in Ids |-> i],
                    LAMBDA i : decls[i].file = f /\ decls[i].kind # "local"))
               \o sourceOrderAttributes(attrOrder),
               scope, <<>>)

-----------------------------------------------------------------------------
(* Tokens and schema loading. *)

decomposeToken(tok) ==
    IF Len(tok) # 3
    THEN [pkg |-> "", ok |-> FALSE]
    ELSE [pkg |-> tok[1], ok |-> TRUE]

(* a loadPackageSchema that does not look in the cache *)
loadUncached(cache, name, outcome) ==
    IF outcome # "ok" THEN [cache |-> cache, calls |-> 1, err |-> outcome]
    ELSE [cache |-> cache \cup {name}, calls |-> 1, err |-> "nil"]

(* loadPackageSchema: a cached package is not asked for; `outcome` is what *)
(* the host answers when it is asked                                       *)
loadPackageSchema(cache, name, outcome) ==
    IF name \in cache THEN [cache |-> cache, calls |-> 0, err |-> "nil"]
    ELSE IF outcome # "ok" THEN [cache |-> cache, calls |-> 1, err |-> outcome]
    ELSE [cache |-> cache \cup {name}, calls |-> 1, err |-> "nil"]

(* the package names loadReferencedPackageSchemas collects for a node; the *)
(* programs drawn here hold no invoke calls, so only a resource has one    *)
packageNames(n) ==
    IF decls[n].kind = "resource" THEN {decomposeToken(decls[n].token).pkg} ELSE {}

-----------------------------------------------------------------------------
(* Dependencies. *)

(* hclsyntax.VisitAll: the names of the function calls and of the roots of *)
(* the scope traversals of a syntax tree, in visiting order                *)
RECURSIVE referenceNames(_)
referenceNames(syntax) ==
    LET all(ss) == Flatten([i \in 1..Len(ss) |-> referenceNames(ss[i])])
    IN  CASE syntax[1] = "call" -> <<syntax[2]>> \o all(syntax[3])
          [] syntax[1] = "scope" -> <<syntax[2]>>
          [] syntax[1] = "rel" -> referenceNames(syntax[2])
          [] syntax[1] \in {"tuple", "template"} -> all(syntax[2])
          [] syntax[1] \in NotImplementedForms -> all(syntax[2])
          [] syntax[1] = "object" ->
                Flatten([i \in 1..Len(syntax[2]) |->
                    referenceNames(syntax[2][i][1]) \o referenceNames(syntax[2][i][2])])
          [] syntax[1] = "objkey" ->
                IF syntax[3] \/ ExprAsKeyword(syntax[2]) = ""
                THEN referenceNames(syntax[2]) ELSE <<>>
          [] syntax[1] \in {"join", "wrap"} -> referenceNames(syntax[2])
          [] OTHER -> <<>>

RECURSIVE collectDeps(_, _, _)
collectDeps(scope, names, deps) ==
    IF Len(names) = 0 THEN deps
    ELSE IF Head(names) \in DOMAIN scope /\ scope[Head(names)] \notin Range(deps)
    THEN collectDeps(scope, Tail(names), Append(deps, scope[Head(names)]))
    ELSE collectDeps(scope, Tail(names), deps)

(* a bindNode that binds no dependency before the node *)
noDependencies(scope, n) == <<>>

(* a bindNode that binds the first of the node's dependencies only *)
firstDependency(scope, n) ==
    LET deps == sourceOrderNodes(collectDeps(scope,
                    Flatten([i \in 1..Len(decls[n].attrs) |->
                                referenceNames(decls[n].attrs[i].expr)]),
                    <<>>))
    IN  IF Len(deps) = 0 THEN deps ELSE <<Head(deps)>>

getDependencies(scope, n) ==
    sourceOrderNodes(collectDeps(scope,
        Flatten([i \in 1..Len(decls[n].attrs) |-> referenceNames(decls[n].attrs[i].expr)]),
        <<>>))

-----------------------------------------------------------------------------
(* Binding a resource. *)

(* a mismatch that leaves the resource with the types it has by default *)
resetOnMismatch(inputType, outputType, bodyExpr, body) ==
    IF ~AssignableFrom(inputType, body.x.type)
    THEN [input |-> AnyType, output |-> AnyType, body |-> <<body.x>>,
          d |-> body.d \o <<exprNotAssignable(bodyExpr)>>]
    ELSE [input |-> inputType, output |-> outputType, body |-> <<body.x>>, d |-> body.d]

(* the end of bindResourceTypes: the types are set, the bound body is      *)
(* checked against the input type                                          *)
checkBody(inputType, outputType, bodyExpr, body) ==
    [input |-> inputType,
     output |-> outputType,
     body |-> <<body.x>>,
     d |-> body.d \o (IF ~AssignableFrom(inputType, body.x.type)
                      THEN <<exprNotAssignable(bodyExpr)>> ELSE <<>>)]

bindResourceTypes(b, n) ==
    LET token == decls[n].token
        t == decomposeToken(token)
        any(d) == [input |-> AnyType, output |-> AnyType, body |-> <<>>, d |-> d]
    IN  IF ~t.ok THEN any(<<malformedToken(NodeRange(n))>>)
        ELSE IF t.pkg \notin b.packageSchemas THEN any(<<unknownPackage(NodeRange(n))>>)
        ELSE IF token \notin DOMAIN Schemas(t.pkg) THEN any(<<unknownResourceType(NodeRange(n))>>)
        ELSE LET res == Schemas(t.pkg)[token]
                 inputType == schemaTypeToType(<<"object", res.inputProperties>>, TRUE)
                 output(prop) == NewOutputType(schemaTypeToType(prop.type, FALSE))
                 outputProperties ==
                    [k \in {"id", "urn"} \cup {res.properties[i].name :
                                                i \in 1..Len(res.properties)} |->
                        IF \E i \in 1..Len(res.properties) : res.properties[i].name = k
                        THEN PropertyMap(res.properties,
                                [i \in 1..Len(res.properties) |->
                                    output(res.properties[i])])[k]
                        ELSE NewOutputType(StringType)]
                 bodyItems == [i \in 1..Len(decls[n].attrs) |->
                                <<StringLit(decls[n].attrs[i].name), decls[n].attrs[i].expr>>]
                 bodyExpr == ObjectCons(bodyItems)
                 body == bindExpression(b, bodyExpr)
             IN  checkBody(inputType, NewObjectType(outputProperties), bodyExpr, body)

-----------------------------------------------------------------------------
(* The programs bound.  A declaration: its name, kind, file, start byte,   *)
(* resource token and the attributes of its body (a local variable is one  *)
(* attribute).  The declarations of a file are listed in source order,     *)
(* every block has its right number of labels, and the attributes of a     *)
(* body are listed in source order.                                        *)

Decl(i, name, kind, file, token, attrs) ==
    [name |-> name, kind |-> kind, file |-> file, start |-> 10 * i,
     token |-> token, attrs |-> attrs]

Attr(name, expr) == [name |-> name, expr |-> expr]

(* the body a declaration of a kind has around one value *)
AttrsFor(kind, name, value) ==
    CASE kind = "local" -> <<Attr(name, value)>>
      [] kind = "config" -> <<Attr("default", value)>>
      [] kind = "output" -> <<Attr("value", value)>>
      [] kind = "resource" -> <<Attr("bucket", value)>>

(* an attribute map holds a name once: the locals of a file differ in name *)
WellFormed(ds) ==
    \A i, j \in 1..Len(ds) :
        (i # j /\ ds[i].kind = "local" /\ ds[j].kind = "local" /\ ds[i].file = ds[j].file)
            => ds[i].name # ds[j].name

RECURSIVE SetToSeq(_)
SetToSeq(S) ==
    IF S = {} THEN <<>>
    ELSE LET x == CHOOSE i \in S : \A j \in S : i <= j
         IN  <<AllNames[x]>> \o SetToSeq(S \ {x})

RECURSIVE SumOver(_, _)
SumOver(f, S) ==
    IF S = {} THEN 0
    ELSE LET x == CHOOSE i \in S : TRUE IN f[x] + SumOver(f, S \ {x})

ValueOf(kind, refs) ==
    LET ref(name) == IF kind = "resource"
                     THEN ScopeTraversal(name, <<TraverseAttr("id")>>)
                     ELSE ScopeTraversal(name, <<>>)
    IN  IF Len(refs) = 0 THEN StringLit("v")
        ELSE IF Len(refs) = 1 THEN ref(refs[1])
        ELSE TupleCons([i \in 1..Len(refs) |-> ref(refs[i])])

(* The programs BindProgram is given.  declarationPrograms: declarations   *)
(* of every kind, spread over the files, names shared or not (names up to  *)
(* renaming: the i-th declaration reuses a name or takes the next).        *)
(* schemaPrograms: resources of every token.  graphPrograms: declarations  *)
(* of one kind in one file that refer to each other, to themselves and to  *)
(* names not declared.                                                     *)
Programs ==
    LET nameChoices(n) ==
            {f \in [1..n -> 1..n] :
                \A i \in 1..n : f[i] = 1 \/ \E j \in 1..(i - 1) : f[j] >= f[i] - 1}
        declarationPrograms ==
            UNION {
                {ds \in {[i \in 1..n |->
                            Decl(i, AllNames[nm[i]], kd[i], fl[i],
                                 IF kd[i] = "resource" THEN BucketToken ELSE <<>>,
                                 IF kd[i] \in {"local", "output"}
                                 THEN AttrsFor(kd[i], AllNames[nm[i]], StringLit("v"))
                                 ELSE <<>>)] :
                         nm \in nameChoices(n), kd \in [1..n -> Kinds],
                         fl \in [1..n -> 1..MaxFiles]} :
                    WellFormed(ds)} :
                n \in 1..MaxDecls}
        schemaPrograms ==
            UNION {
                {[i \in 1..n |-> Decl(i, AllNames[i], "resource", 1, tk[i], <<>>)] :
                    tk \in [1..n -> Tokens]} :
                n \in 1..MaxDecls}
        graphPrograms ==
            UNION {
                {[i \in 1..n |->
                    Decl(i, AllNames[i], kd, 1,
                         IF kd = "resource" THEN BucketToken ELSE <<>>,
                         AttrsFor(kd, AllNames[i], ValueOf(kd, SetToSeq(rf[i]))))] :
                    kd \in Kinds,
                    rf \in {r \in [1..n -> SUBSET (1..MaxNodes)] :
                                SumOver([i \in 1..n |-> Cardinality(r[i])], 1..n)
                                    <= MaxRefs}} :
                n \in 1..MaxNodes}
    IN  declarationPrograms \cup schemaPrograms \cup graphPrograms

-----------------------------------------------------------------------------
(* BindProgram. *)

NotReturned == [program |-> FALSE, nodes |-> <<>>, diags |-> <<>>, err |-> "none"]

Binder == [nodes |-> root, types |-> typeOf, packageSchemas |-> packageSchemas]

Start(ds) ==
    /\ decls = ds
    /\ pc = "declare"
    /\ fileIdx = 1
    /\ root = [k \in {} |-> 0]
    /\ diagnostics = <<>>
    /\ nodes = <<>>
    /\ loadIdx = 1
    /\ bindIdx = 1
    /\ state = [i \in 1..Len(ds) |-> unbound]
    /\ inputTypeOf = [i \in 1..Len(ds) |-> NoType]
    /\ typeOf = [i \in 1..Len(ds) |-> NoType]
    /\ stack = <<>>
    /\ frames = <<>>
    /\ binderRuns = [i \in 1..Len(ds) |-> 0]
    /\ packageSchemas = {}
    /\ hostCalls = [p \in Packages |-> 0]
    /\ ret = NotReturned
    /\ lastBound = <<>>
    /\ applied = <<>>

Init ==
    /\ \E ds \in Programs : Start(ds)
    /\ host = [p \in Packages |-> "unasked"]
    /\ run = 1
    /\ prev = NotReturned

(* where BindProgram stands: what it does next *)
Declaring == pc = "declare"
Sorting == pc = "sort"
Loading == pc = "load" /\ loadIdx <= Len(nodes)
(* a binding loop that starts while schemas are still being loaded *)
callingWhileLoading ==
    /\ pc \in {"load", "bind"}
    /\ IF frames = <<>> THEN bindIdx <= Len(nodes) ELSE frames[Len(frames)].deps # <<>>

Calling ==
    /\ pc = "bind"
    /\ IF frames = <<>> THEN bindIdx <= Len(nodes) ELSE frames[Len(frames)].deps # <<>>
Finishing == pc = "bind" /\ frames # <<>> /\ frames[Len(frames)].deps = <<>>
Returning == pc = "bind" /\ frames = <<>> /\ bindIdx > Len(nodes)

(* BindProgram does not return: an index out of range panics *)
panicked == [program |-> FALSE, nodes |-> <<>>, diags |-> <<>>, err |-> "panic"]

(* the declare loop: declareNodes on the next file, in file-name order *)
DeclareNodes ==
    /\ Declaring
    /\ \E attrOrder \in Perms(attributesOf(fileIdx)) :
        LET r == declareNodes(root, fileIdx, attrOrder)
        IN  /\ root' = r.scope
            /\ diagnostics' = diagnostics \o r.d
            /\ IF r.panic
               THEN /\ ret' = panicked
                    /\ pc' = "done"
                    /\ UNCHANGED fileIdx
               ELSE /\ fileIdx' = fileIdx + 1
                    /\ pc' = IF fileIdx >= NumFiles THEN "sort" ELSE "declare"
                    /\ UNCHANGED ret
    /\ UNCHANGED <<decls, nodes, loadIdx, bindIdx, state, inputTypeOf, typeOf, stack,
                   frames, binderRuns, packageSchemas, host, hostCalls, run, prev,
                   lastBound, applied>>

(* the nodes of the root scope, in the order the map gives them, sorted *)
SortNodes ==
    /\ Sorting
    /\ \E order \in Perms({root[k] : k \in DOMAIN root}) :
        nodes' = sourceOrderNodes(order)
    /\ pc' = "load"
    /\ UNCHANGED <<decls, fileIdx, root, diagnostics, loadIdx, bindIdx, state, inputTypeOf,
                   typeOf, stack, frames, binderRuns, packageSchemas, host, hostCalls,
                   ret, run, prev, lastBound, applied>>

(* a failure that hands back the diagnostics collected so far *)
failedWithDiagnostics(err) ==
    [program |-> FALSE, nodes |-> <<>>, diags |-> diagnostics, err |-> err]

(* what BindProgram returns when loading a schema fails, and when it binds *)
loadFailed(err) == [program |-> FALSE, nodes |-> <<>>, diags |-> <<>>, err |-> err]
bindSucceeded(ns, diags) == [program |-> TRUE, nodes |-> ns, diags |-> diags, err |-> "nil"]

(* loadReferencedPackageSchemas on the next node; a failure ends the bind. *)
(* getResourceToken reads Labels[1] of a resource.                         *)
LoadReferencedPackageSchemas ==
    /\ Loading
    /\ LET names == packageNames(nodes[loadIdx])
           next == /\ loadIdx' = loadIdx + 1
                   /\ pc' = IF loadIdx = Len(nodes) THEN "bind" ELSE "load"
                   /\ ret' = ret
       IN  IF decls[nodes[loadIdx]].kind = "resource" /\ labelsOf(nodes[loadIdx]).own < 2
           THEN /\ ret' = panicked
                /\ pc' = "done"
                /\ UNCHANGED <<loadIdx, packageSchemas, host, hostCalls>>
           ELSE IF names = {}
           THEN next /\ UNCHANGED <<packageSchemas, host, hostCalls>>
           ELSE LET name == CHOOSE nm \in names : TRUE
                IN  \E outcome \in IF host[name] = "unasked" THEN {"ok"} \cup HostFailures
                                                            ELSE {host[name]} :
                        LET r == loadPackageSchema(packageSchemas, name, outcome)
                        IN  /\ packageSchemas' = r.cache
                            /\ hostCalls' = [hostCalls EXCEPT ![name] = @ + r.calls]
                            /\ host' = IF r.calls = 0 THEN host
                                       ELSE [host EXCEPT ![name] = outcome]
                            /\ IF r.err = "nil"
                               THEN next
                               ELSE /\ ret' = loadFailed(r.err)
                                    /\ pc' = "done"
                                    /\ UNCHANGED loadIdx
    /\ UNCHANGED <<decls, fileIdx, root, diagnostics, nodes, bindIdx, state, inputTypeOf,
                   typeOf, stack, frames, binderRuns, run, prev, lastBound, applied>>

(* a bindNode without the case for a bound node *)
neverDone(node) == FALSE

(* case bound of bindNode: already done *)
alreadyDone(node) == state[node] = bound

(* a call of bindNode: by the binding loop, or by the bindNode on top of   *)
(* the call stack for its next dependency                                  *)
BindNode ==
    /\ Calling
    /\ LET node == IF frames = <<>> THEN nodes[bindIdx] ELSE Head(frames[Len(frames)].deps)
           callers == IF frames = <<>> THEN frames
                      ELSE [frames EXCEPT ![Len(frames)].deps = Tail(@)]
       IN  /\ bindIdx' = IF frames = <<>> THEN bindIdx + 1 ELSE bindIdx
           /\ CASE state[node] = binding ->
                    /\ diagnostics' = Append(diagnostics, circularReference(NodeRange(node)))
                    /\ frames' = callers
                    /\ UNCHANGED <<state, stack>>
                [] alreadyDone(node) ->
                    /\ frames' = callers
                    /\ UNCHANGED <<diagnostics, state, stack>>
                [] OTHER ->
                    /\ state' = [state EXCEPT ![node] = binding]
                    /\ stack' = Append(stack, node)
                    /\ frames' = Append(callers,
                            [node |-> node, deps |-> getDependencies(root, node)])
                    /\ UNCHANGED diagnostics
    /\ UNCHANGED <<decls, pc, fileIdx, root, nodes, loadIdx, inputTypeOf, typeOf,
                   binderRuns, packageSchemas, host, hostCalls, ret, run, prev, lastBound, applied>>

(* a deferred function that pops the stack and marks the node unbound again *)
deferredReset(node) ==
    /\ stack' = SubSeq(stack, 1, Len(stack) - 1)
    /\ state' = [state EXCEPT ![node] = unbound]

(* a deferred function that pops the stack and leaves the node binding *)
deferredPopOnly(node) ==
    /\ stack' = SubSeq(stack, 1, Len(stack) - 1)
    /\ UNCHANGED state

(* a deferred function that marks the node bound and leaves the stack *)
deferredNoPop(node) ==
    /\ UNCHANGED stack
    /\ state' = [state EXCEPT ![node] = bound]

(* the function bindNode defers: pop the stack, mark the node bound *)
deferred(node) ==
    /\ stack' = SubSeq(stack, 1, Len(stack) - 1)
    /\ state' = [state EXCEPT ![node] = bound]

(* the rest of bindNode once its dependencies are bound: the binder of the *)
(* node's kind, then the deferred pop and setState(bound)                  *)
BindNodeFinish ==
    /\ Finishing
    /\ LET node == frames[Len(frames)].node
       IN  /\ IF decls[node].kind = "resource"
              THEN LET r == bindResourceTypes(Binder, node)
                   IN  /\ inputTypeOf' = [inputTypeOf EXCEPT ![node] = r.input]
                       /\ typeOf' = [typeOf EXCEPT ![node] = r.output]
                       /\ diagnostics' = diagnostics \o r.d
              ELSE /\ diagnostics' = diagnostics \o notYetImplemented(NodeRange(node))
                   /\ UNCHANGED <<inputTypeOf, typeOf>>
           /\ binderRuns' = [binderRuns EXCEPT ![node] = @ + 1]
           /\ deferred(node)
           /\ frames' = SubSeq(frames, 1, Len(frames) - 1)
    /\ UNCHANGED <<decls, pc, fileIdx, root, nodes, loadIdx, bindIdx, packageSchemas,
                   host, hostCalls, ret, run, prev, lastBound, applied>>

(* BindProgram returns the Program *)
Return ==
    /\ Returning
    /\ ret' = bindSucceeded(nodes, diagnostics)
    /\ pc' = "done"
    /\ UNCHANGED <<decls, fileIdx, root, diagnostics, nodes, loadIdx, bindIdx, state,
                   inputTypeOf, typeOf, stack, frames, binderRuns, packageSchemas, host,
                   hostCalls, run, prev, lastBound, applied>>

Next ==
    \/ DeclareNodes
    \/ SortNodes
    \/ LoadReferencedPackageSchemas
    \/ BindNode
    \/ BindNodeFinish
    \/ Return

Spec == Init /\ [][Next]_vars

(* the same files bound a second time against the same host *)
Rebind ==
    /\ pc = "done"
    /\ run = 1
    /\ run' = 2
    /\ prev' = ret
    /\ UNCHANGED <<decls, host, applied>>
    /\ pc' = "declare"
    /\ fileIdx' = 1
    /\ root' = [k \in {} |-> 0]
    /\ diagnostics' = <<>>
    /\ nodes' = <<>>
    /\ loadIdx' = 1
    /\ bindIdx' = 1
    /\ state' = [i \in Ids |-> unbound]
    /\ inputTypeOf' = [i \in Ids |-> NoType]
    /\ typeOf' = [i \in Ids |-> NoType]
    /\ stack' = <<>>
    /\ frames' = <<>>
    /\ binderRuns' = [i \in Ids |-> 0]
    /\ packageSchemas' = {}
    /\ hostCalls' = [p \in Packages |-> 0]
    /\ ret' = NotReturned
    /\ lastBound' = <<>>

NextTwice == Next \/ Rebind

SpecTwice == Init /\ [][NextTwice]_vars

-----------------------------------------------------------------------------
(* Program.BindExpression: an expression bound against a returned Program. *)

MaxArgs == 3    \* arguments of a call
MaxItems == 2   \* elements of a tuple, parts of a template, items of an object

SeqsUpTo(S, n) == UNION {[1..k -> S] : k \in 0..n}

Traversals ==
    {<<>>, <<TraverseAttr("bucket")>>, <<TraverseAttr("nope")>>,
     <<TraverseIndex("number", "")>>, <<TraverseIndex("bool", "")>>,
     <<TraverseAttr("bucket"), TraverseAttr("x")>>}

Leaves ==
    {NullLit, Lit("bool", ""), Lit("number", ""), StringLit("a"), StringLit("bucket"),
     Lit("list", "")}
    \cup {ScopeTraversal(nm, tr) : nm \in {"a", "b", "c", "d"}, tr \in Traversals}
    \cup {<<form, <<>>>> : form \in NotImplementedForms}

(* what the composite expressions are built from *)
Operands ==
    {NullLit, StringLit("a"), Lit("number", ""), ScopeTraversal("a", <<>>),
     ScopeTraversal("b", <<>>), FunctionCall("fileAsset", <<>>),
     FunctionCall("toJSON", <<StringLit("a"), StringLit("a")>>)}

Syntaxes ==
    LET keys ==
            {ObjectConsKey(w, force) :
                w \in {ScopeTraversal("bucket", <<>>), StringLit("bucket"), StringLit("a"),
                       Lit("number", "")},
                force \in BOOLEAN}
    IN
    Leaves
    \cup {FunctionCall(nm, args) :
            nm \in Builtins \cup {"nope"}, args \in SeqsUpTo(Operands, MaxArgs)}
    \cup {TupleCons(es) : es \in SeqsUpTo(Operands, MaxItems)}
    \cup {Template(ps) : ps \in SeqsUpTo(Operands, MaxItems) \ {<<>>}}
    \cup {TemplateJoin(TupleCons(es)) : es \in SeqsUpTo(Operands, MaxItems)}
    \cup {TemplateWrap(e) : e \in Leaves}
    \cup {RelativeTraversal(e, tr) : e \in Operands, tr \in Traversals}
    \cup {ObjectCons(items) :
            items \in SeqsUpTo(keys \X {NullLit, StringLit("a"), TupleCons(<<>>)}, MaxItems)}

(* binding an expression leaves the binder as it was, so the calls on a    *)
(* Program are independent of each other: a behaviour holds one of them    *)
BindExpression ==
    /\ pc = "done"
    /\ ret.program
    /\ lastBound = <<>>
    /\ \E syntax \in Syntaxes :
        lastBound' = <<[syntax |-> syntax] @@ bindExpression(Binder, syntax)>>
    /\ UNCHANGED <<decls, pc, fileIdx, root, diagnostics, nodes, loadIdx, bindIdx, state,
                   inputTypeOf, typeOf, stack, frames, binderRuns, packageSchemas, host,
                   hostCalls, ret, run, prev, applied>>

(* the programs expressions are bound against: a resource a with a schema, *)
(* a local variable b and, in the second, a resource c of a malformed token *)
InitExpr ==
    /\ \E ds \in
            {<<Decl(1, "a", "resource", 1, BucketToken, <<>>),
               Decl(2, "b", "local", 1, <<>>, AttrsFor("local", "b", StringLit("v")))>>,
             <<Decl(1, "a", "resource", 1, BucketToken, <<>>),
               Decl(2, "b", "local", 1, <<>>, AttrsFor("local", "b", StringLit("v"))),
               Decl(3, "c", "resource", 1, NotAToken, <<>>)>>} : Start(ds)
    /\ host = [p \in Packages |-> "unasked"]
    /\ run = 1
    /\ prev = NotReturned

NextExpr == Next \/ BindExpression

SpecExpr == InitExpr /\ [][NextExpr]_vars

-----------------------------------------------------------------------------
(* The reference graph of an input: the declared nodes and, for each, the  *)
(* declared nodes its expressions name.                                    *)

Declared == {root[k] : k \in DOMAIN root}

RefersTo(n, m) ==
    \E i \in 1..Len(decls[n].attrs) :
        \E nm \in Range(referenceNames(decls[n].attrs[i].expr)) :
            nm \in DOMAIN root /\ root[nm] = m

RECURSIVE ReachableFrom(_)
ReachableFrom(S) ==
    LET T == S \cup {m \in Declared : \E n \in S : RefersTo(n, m)}
    IN  IF T = S THEN S ELSE ReachableFrom(T)

DependsOn(n) == ReachableFrom({m \in Declared : RefersTo(n, m)})

Cyclic == \E n \in Declared : n \in DependsOn(n)

Returned == pc = "done"
ReturnedProgram == pc = "done" /\ ret.program

(* The work BindProgram has left: the phases to come, and in a phase the   *)
(* files to declare, the nodes to load for, and in the binding phase the   *)
(* nodes not yet entered, the calls of bindNode still to make and the      *)
(* calls still to return from.                                             *)
RECURSIVE PendingCalls(_)
PendingCalls(fs) ==
    IF Len(fs) = 0 THEN 0 ELSE Len(Head(fs).deps) + 1 + PendingCalls(Tail(fs))

PhaseWork == (Len(decls) + 2) * (Len(decls) + 2)

WorkLeft ==
    CASE pc = "declare" -> 4 * PhaseWork + (NumFiles + 1 - fileIdx)
      [] pc = "sort" -> 3 * PhaseWork
      [] pc = "load" -> 2 * PhaseWork + (Len(nodes) + 1 - loadIdx)
      [] pc = "bind" ->
            PhaseWork
            + Cardinality({n \in Ids : state[n] = unbound}) * (Len(decls) + 2)
            + (Len(nodes) + 1 - bindIdx)
            + PendingCalls(frames)
      [] OTHER -> 0

(* C1: BindProgram terminates on every input, cyclic ones included: every  *)
(* step it takes leaves it less work, and it has a step to take until it   *)
(* has returned.  When it returns the diagnostics of an input whose references *)
(* form a cycle, at least one is a 'circular reference' diagnostic.        *)
C1_TerminatesAndReportsCycles ==
    /\ [][WorkLeft' < WorkLeft]_vars
    /\ [](WorkLeft >= 0)
    /\ [](Returned \/ Declaring \/ Sorting \/ Loading \/ Calling \/ Finishing \/ Returning)
    /\ [](ReturnedProgram /\ Cyclic => HasDiag(ret.diags, "circular reference to node"))

(* a = b and b = a, bound to the end *)
C1_Witness ==
    /\ ReturnedProgram
    /\ \E n, m \in Declared : n # m /\ RefersTo(n, m) /\ RefersTo(m, n)
    /\ HasDiag(ret.diags, "circular reference to node")

-----------------------------------------------------------------------------
(* The order declarations are declared in: the files by name; in a file    *)
(* the blocks by position, then the attributes.                            *)

IsBlock(i) == decls[i].kind # "local"

DeclaredBefore(i, j) ==
    \/ Filename(i) < Filename(j)
    \/ /\ Filename(i) = Filename(j)
       /\ \/ IsBlock(i) /\ ~IsBlock(j)
          \/ IsBlock(i) = IsBlock(j) /\ StartByte(i) < StartByte(j)

SameName(i) == {j \in Ids : decls[j].name = decls[i].name}
IsFirstDeclared(i) == \A j \in SameName(i) \ {i} : DeclaredBefore(i, j)
Dropped == {i \in Ids : ~IsFirstDeclared(i)}

CountDiagAt(ds, msg, subject) ==
    Cardinality({k \in 1..Len(ds) : ds[k] = <<msg, subject>>})

(* C2: once the declarations are declared, each name resolves to its       *)
(* first-declared node, every later declaration of the name has produced   *)
(* exactly one 'already declared' diagnostic, and such a declaration is    *)
(* dropped: it is not in the node list, stays unbound and is never bound.  *)
C2_DuplicateDropped ==
    pc # "declare" =>
        /\ \A i \in Ids \ Dropped :
            /\ root[decls[i].name] = i
            /\ CountDiagAt(diagnostics, "already declared", NodeRange(i))
                    = Cardinality(SameName(i)) - 1
        /\ CountDiag(diagnostics, "already declared") = Cardinality(Dropped)
        /\ \A i \in Dropped :
            /\ i \notin Range(nodes)
            /\ state[i] = unbound
            /\ binderRuns[i] = 0
        /\ ReturnedProgram =>
            /\ CountDiag(ret.diags, "already declared") = Cardinality(Dropped)
            /\ Range(ret.nodes) = Ids \ Dropped

(* two declarations of one name, of which the later in the text is the one *)
(* declared first, bound to the end                                        *)
C2_Witness ==
    /\ ReturnedProgram
    /\ \E i \in Ids \ Dropped : \E j \in Dropped :
        /\ decls[i].name = decls[j].name
        /\ StartByte(j) < StartByte(i)
        /\ state[i] = bound

-----------------------------------------------------------------------------
IsResource(i) == decls[i].kind = "resource"
Malformed(i) == IsResource(i) /\ Len(decls[i].token) # 3
PackageOf(i) == decls[i].token[1]

(* C3: for an input with a resource of a malformed token, BindProgram      *)
(* returns a Program, a nil error and a 'malformed token' diagnostic for   *)
(* the resource, whatever the host has under the name the malformed token  *)
(* gives, as long as the packages of the well-formed tokens load.          *)
C3_MalformedTokenNotFatal ==
    (/\ Returned
     /\ \E i \in Declared : Malformed(i)
     /\ \A p \in Packages \ {""} : host[p] \notin HostFailures)
    => /\ ret.program
       /\ ret.err = "nil"
       /\ \A i \in Declared :
            Malformed(i) => CountDiagAt(ret.diags, "malformed token", NodeRange(i)) = 1

(* C4: when the host fails to give a package schema, BindProgram has       *)
(* returned that error with no Program and no diagnostics, and every node  *)
(* is still unbound.                                                       *)
C4_LoadFailureIsFatal ==
    /\ (\E p \in Packages : host[p] \in HostFailures) =>
        /\ Returned
        /\ \E p \in Packages : host[p] \in HostFailures /\ ret = loadFailed(host[p])
        /\ ~ret.program /\ ret.nodes = <<>> /\ ret.diags = <<>> /\ ret.err # "nil"
        /\ \A i \in Ids : state[i] = unbound /\ binderRuns[i] = 0
    /\ (Returned /\ ret.err # "nil") => \E p \in Packages : host[p] = ret.err

(* a load that fails after the declarations produced a diagnostic *)
C4_Witness ==
    /\ Returned
    /\ ret.err \in HostFailures
    /\ diagnostics # <<>>
    /\ ret.diags = <<>>

(* C5: a second BindProgram call on the same files and the same host       *)
(* returns what the first returned: the same diagnostics in the same order *)
(* and the same node list.                                                 *)
C5_SameResultTwice == (Returned /\ run = 2) => ret = prev

(* the order of the source: the files by name, in a file by position *)
SourceBefore(i, j) ==
    \/ Filename(i) < Filename(j)
    \/ Filename(i) = Filename(j) /\ StartByte(i) < StartByte(j)

PositionIn(ns, n) == CHOOSE k \in 1..Len(ns) : ns[k] = n

C7_HostAskedOnce ==
    \A p \in Packages :
        /\ hostCalls[p] <= 1
        /\ p \in packageSchemas => hostCalls[p] = 1

(* two resources of one package, both past the loading loop *)
C7_Witness ==
    /\ ReturnedProgram
    /\ \E i, j \in Declared :
        /\ i # j /\ IsResource(i) /\ IsResource(j)
        /\ ~Malformed(i) /\ ~Malformed(j)
        /\ PackageOf(i) = PackageOf(j)
        /\ hostCalls[PackageOf(i)] = 1

(* C9: in a returned Program every node whose binding reported a           *)
(* diagnostic on the node has type Any.                                    *)
NodeMessages == {"NYI", "malformed token", "unknown package", "unknown resource type"}

C9_DiagnosedNodesAreAny ==
    ReturnedProgram =>
        \A n \in Range(ret.nodes) :
            (\E k \in 1..Len(ret.diags) :
                ret.diags[k][1] \in NodeMessages /\ ret.diags[k][2] = NodeRange(n))
            => typeOf[n] = AnyType

-----------------------------------------------------------------------------
RECURSIVE AllTyped(_)
AllTyped(x) ==
    /\ x.type # NoType
    /\ \A i \in 1..Len(x.children) : AllTyped(x.children[i])

(* C8: the expression bindExpression returns and every expression in its   *)
(* tree has a type.                                                        *)
C8_EveryExpressionTyped == lastBound # <<>> => AllTyped(lastBound[1].x)

IsBuiltinCall(syntax) == syntax[1] = "call" /\ syntax[2] \in Builtins

(* C10: binding a call of a builtin reports, on the call, exactly one      *)
(* 'missing required parameter' when there is no argument and none else,   *)
(* exactly one 'too many arguments' when there are two arguments or more   *)
(* and none else, and types the call with the return type of the builtin,  *)
(* Asset for fileAsset.                                                    *)
C10_BuiltinArity ==
    (lastBound # <<>> /\ IsBuiltinCall(lastBound[1].syntax)) =>
        LET call == lastBound[1]
            n == Len(call.syntax[3])
            missing == CountDiagAt(call.d, "missing required parameter", call.syntax)
            extra == CountDiagAt(call.d, "too many arguments to call", call.syntax)
        IN  /\ missing = (IF n = 0 THEN 1 ELSE 0)
            /\ extra = (IF n >= 2 THEN 1 ELSE 0)
            /\ n = 0 => CountDiag(call.d, "missing required parameter") = 1
            /\ call.x.kind = "FunctionCall"
            /\ call.x.type = getFunctionDefinition(call.syntax[2]).returnType
            /\ call.syntax[2] = "fileAsset" => call.x.type = AssetType

(* fileAsset with three arguments, one of them a call with too many of its *)
(* own                                                                     *)
C10_Witness ==
    /\ lastBound # <<>>
    /\ IsBuiltinCall(lastBound[1].syntax)
    /\ lastBound[1].syntax[2] = "fileAsset"
    /\ Len(lastBound[1].syntax[3]) = 3
    /\ CountDiag(lastBound[1].d, "too many arguments to call") = 2
    /\ lastBound[1].x.type = AssetType

-----------------------------------------------------------------------------
(* Resources that refer to each other's output properties, and resources   *)
(* whose body holds a form with no binding rule.                           *)

MaxResources == 2   \* resources in a program of the resource-reference family

(* referencePrograms: resources with a schema, each set to a string or to *)
(* the property bucket of a resource: of itself, of one before it or of    *)
(* one after it.  formPrograms: a resource a set to a number or to a form  *)
(* with no binding rule, around a string or a reference to b, and a        *)
(* resource b after it.                                                    *)
ResourcePrograms ==
    LET referencePrograms ==
            UNION {
                {[i \in 1..n |->
                    Decl(i, AllNames[i], "resource", 1, tk[i],
                         AttrsFor("resource", AllNames[i], vl[i]))] :
                    tk \in [1..n -> {BucketToken, DiskToken}],
                    vl \in [1..n -> {StringLit("v")}
                                    \cup {ScopeTraversal(AllNames[j],
                                                         <<TraverseAttr("bucket")>>) :
                                            j \in 1..n}]} :
                n \in 1..MaxResources}
        formPrograms ==
            {<<Decl(1, "a", "resource", 1, tk, AttrsFor("resource", "a", v)),
               Decl(2, "b", "resource", 1, BucketToken, AttrsFor("resource", "b", w))>> :
                tk \in {BucketToken, InstanceToken},
                v \in {Lit("number", "")}
                      \cup {<<form, <<child>>>> :
                                form \in NotImplementedForms,
                                child \in {StringLit("v"), ScopeTraversal("b", <<>>)}},
                w \in {StringLit("v"), ScopeTraversal("a", <<TraverseAttr("bucket")>>)}}
    IN  referencePrograms \cup formPrograms

InitRes ==
    /\ \E ds \in ResourcePrograms : Start(ds)
    /\ host = [p \in Packages |-> "unasked"]
    /\ run = 1
    /\ prev = NotReturned

SpecRes == InitRes /\ [][Next]_vars

-----------------------------------------------------------------------------
(* an expression and the expressions under it, outermost first *)
RECURSIVE Flat(_)
Flat(x) == <<x>> \o Flatten([i \in 1..Len(x.children) |-> Flat(x.children[i])])

(* the schema of resource r declares an output property p of string type *)
OutputsString(r, p) ==
    /\ IsResource(r)
    /\ ~Malformed(r)
    /\ decls[r].token \in DOMAIN Schemas(PackageOf(r))
    /\ \E i \in 1..Len(Schemas(PackageOf(r))[decls[r].token].properties) :
        LET prop == Schemas(PackageOf(r))[decls[r].token].properties[i]
        IN  prop.name = p /\ prop.type = <<"string">>

(* the node whose kind-specific binder runs in this step *)
Finishes(s) == state[s] = binding /\ state'[s] = bound

(* e is the bound traversal r.p of a string output property p of a         *)
(* resource r other than s                                                 *)
ReadsStringOutput(e, s) ==
    /\ e.kind = "ScopeTraversal"
    /\ Len(e.syntax[3]) = 1
    /\ e.syntax[3][1][1] = "attr"
    /\ e.syntax[2] \in DOMAIN root
    /\ root[e.syntax[2]] # s
    /\ OutputsString(root[e.syntax[2]], e.syntax[3][1][3])

(* C11 as stated: when a resource s is bound, every traversal r.p in its   *)
(* body, of a string output property p of another resource r, is bound to  *)
(* an expression of type Output<String>, wherever r is declared.           *)
C11_TraversalIsOutputString ==
    [][\A s \in Ids :
        (Finishes(s) /\ IsResource(s)) =>
            LET body == bindResourceTypes(Binder, s).body
            IN  body # <<>> =>
                    \A i \in 1..Len(Flat(body[1])) :
                        ReadsStringOutput(Flat(body[1])[i], s)
                            => Flat(body[1])[i].type = NewOutputType(StringType)]_vars

(* C11, amended: the same for every resource r that does not depend on s,  *)
(* declared before s or after it.                                          *)
C11_AcyclicTraversalIsOutputString ==
    [][\A s \in Ids :
        (Finishes(s) /\ IsResource(s)) =>
            LET body == bindResourceTypes(Binder, s).body
            IN  body # <<>> =>
                    \A i \in 1..Len(Flat(body[1])) :
                        (/\ ReadsStringOutput(Flat(body[1])[i], s)
                         /\ s \notin DependsOn(root[Flat(body[1])[i].syntax[2]]))
                            => Flat(body[1])[i].type = NewOutputType(StringType)]_vars

(* a resource bound whose body reads the bucket of a resource declared     *)
(* after it, which does not depend on it                                   *)
C11_Witness ==
    /\ ReturnedProgram
    /\ \E s, r \in Declared :
        /\ s # r
        /\ StartByte(s) < StartByte(r)
        /\ decls[s].attrs[1].expr = ScopeTraversal(decls[r].name, <<TraverseAttr("bucket")>>)
        /\ OutputsString(r, "bucket")
        /\ s \notin DependsOn(r)
        /\ state[s] = bound /\ state[r] = bound
        /\ typeOf[s] # AnyType

-----------------------------------------------------------------------------
(* resource n has a resource schema in a loaded package *)
KnownResource(n) ==
    /\ IsResource(n)
    /\ ~Malformed(n)
    /\ PackageOf(n) \in packageSchemas
    /\ decls[n].token \in DOMAIN Schemas(PackageOf(n))

OutputPropertiesOf(n) == Schemas(PackageOf(n))[decls[n].token].properties

(* C12: the output type of every resource bound against a known schema     *)
(* resource is an Object type whose properties are id, urn and the output  *)
(* properties the schema declares; each declared property has its schema   *)
(* type wrapped in Output, and id and urn have type Output<String>.        *)
C12_OutputObjectType ==
    \A n \in Ids :
        (state[n] = bound /\ KnownResource(n)) =>
            LET props == OutputPropertiesOf(n)
            IN  /\ typeOf[n][1] = "Object"
                /\ DOMAIN typeOf[n][2]
                        = {"id", "urn"} \cup {props[i].name : i \in 1..Len(props)}
                /\ \A i \in 1..Len(props) :
                        typeOf[n][2][props[i].name]
                            = NewOutputType(schemaTypeToType(props[i].type, FALSE))
                /\ typeOf[n][2]["id"] = NewOutputType(StringType)
                /\ typeOf[n][2]["urn"] = NewOutputType(StringType)

-----------------------------------------------------------------------------
(* the input type the schema gives resource n, and the body of n as the    *)
(* object constructor bindResourceTypes binds                              *)
SchemaInputType(n) ==
    schemaTypeToType(<<"object", Schemas(PackageOf(n))[decls[n].token].inputProperties>>, TRUE)

BodyOf(n) ==
    ObjectCons([i \in 1..Len(decls[n].attrs) |->
                    <<StringLit(decls[n].attrs[i].name), decls[n].attrs[i].expr>>])

(* the body of n, bound now, is not assignable to the input type of n *)
Mismatch(n) == ~AssignableFrom(SchemaInputType(n), bindExpression(Binder, BodyOf(n)).x.type)

(* C13: the step that binds a resource with a known schema whose body is   *)
(* not assignable to the computed input type adds a 'cannot assign         *)
(* expression' diagnostic on the body, leaves the resource with the input  *)
(* type and the Object output type computed from the schema, and leaves    *)
(* the node bound.                                                         *)
C13_MismatchKeepsTypes ==
    [][\A s \in Ids :
        (Finishes(s) /\ KnownResource(s) /\ Mismatch(s)) =>
            /\ CountDiagAt(diagnostics', "cannot assign expression", BodyOf(s))
                    = CountDiagAt(diagnostics, "cannot assign expression", BodyOf(s)) + 1
            /\ inputTypeOf'[s] = SchemaInputType(s)
            /\ inputTypeOf'[s] # AnyType
            /\ typeOf'[s][1] = "Object"
            /\ DOMAIN typeOf'[s][2]
                    = {"id", "urn"} \cup {OutputPropertiesOf(s)[i].name :
                                            i \in 1..Len(OutputPropertiesOf(s))}
            /\ state'[s] = bound]_vars

(* an Instance with no zone, which it requires, bound, in a returned Program *)
C13_Witness ==
    /\ ReturnedProgram
    /\ \E s \in Declared :
        /\ KnownResource(s)
        /\ decls[s].token = InstanceToken
        /\ decls[s].attrs[1].name # "zone"
        /\ state[s] = bound
        /\ CountDiagAt(ret.diags, "cannot assign expression", BodyOf(s)) = 1
        /\ inputTypeOf[s] = SchemaInputType(s)
        /\ typeOf[s][1] = "Object"

-----------------------------------------------------------------------------
(* Program.BindExpression called again and again on a returned Program.    *)

(* the leaves and one expression of each composite form *)
FewSyntaxes ==
    Leaves
    \cup {RelativeTraversal(ScopeTraversal("a", <<>>), <<TraverseAttr("nope")>>),
          FunctionCall("fileAsset", <<>>),
          FunctionCall("nope", <<ScopeTraversal("b", <<>>)>>),
          TupleCons(<<StringLit("a"), Lit("number", "")>>),
          ObjectCons(<<<<ObjectConsKey(ScopeTraversal("bucket", <<>>), FALSE),
                         ScopeTraversal("a", <<TraverseAttr("urn")>>)>>>>),
          Template(<<StringLit("a"), ScopeTraversal("b", <<>>)>>),
          TemplateJoin(TupleCons(<<StringLit("a")>>)),
          TemplateWrap(Lit("list", ""))}

(* a BindExpression that loads the schema of a package it has not loaded *)
BindExpressionAndLoad ==
    /\ pc = "done"
    /\ ret.program
    /\ \E syntax \in FewSyntaxes :
        lastBound' = <<[syntax |-> syntax] @@ bindExpression(Binder, syntax)>>
    /\ packageSchemas' = packageSchemas \cup {"gcp"}
    /\ UNCHANGED <<decls, pc, fileIdx, root, diagnostics, nodes, loadIdx, bindIdx, state,
                   inputTypeOf, typeOf, stack, frames, binderRuns, host, hostCalls, ret,
                   run, prev, applied>>

(* any call after the first: lastBound holds what the last call returned *)
BindExpressionAgain ==
    /\ pc = "done"
    /\ ret.program
    /\ \E syntax \in FewSyntaxes :
        lastBound' = <<[syntax |-> syntax] @@ bindExpression(Binder, syntax)>>
    /\ UNCHANGED <<decls, pc, fileIdx, root, diagnostics, nodes, loadIdx, bindIdx, state,
                   inputTypeOf, typeOf, stack, frames, binderRuns, packageSchemas, host,
                   hostCalls, ret, run, prev, applied>>

NextCalls == Next \/ BindExpressionAgain

SpecCalls == InitExpr /\ [][NextCalls]_vars

(* C14: every call of Program.BindExpression on a returned Program leaves  *)
(* the Program as it was: the node list, the bind state and the types of   *)
(* every node, the root scope, the binder stack and the schema cache are   *)
(* the same after the call as before it, and the host is not called.       *)
C14_BindExpressionFrame ==
    [][(pc = "done" /\ ret.program) =>
        /\ ret' = ret
        /\ nodes' = nodes
        /\ state' = state
        /\ typeOf' = typeOf
        /\ inputTypeOf' = inputTypeOf
        /\ root' = root
        /\ stack' = stack
        /\ packageSchemas' = packageSchemas
        /\ hostCalls' = hostCalls
        /\ host' = host]_vars

(* the traversal a.bucket bound against the returned Program, typed from   *)
(* the schema in the cache                                                 *)
C14_Witness ==
    /\ ReturnedProgram
    /\ lastBound # <<>>
    /\ lastBound[1].syntax = ScopeTraversal("a", <<TraverseAttr("bucket")>>)
    /\ lastBound[1].x.type = NewOutputType(StringType)
    /\ "aws" \in packageSchemas
    /\ \A n \in Range(ret.nodes) : state[n] = bound

-----------------------------------------------------------------------------
(* The type operations applied to constructed types.                       *)

MaxTypeDepth == 1   \* constructors nested in a type the operations are applied to

(* the types built by d constructors around Any, String, Number and the   *)
(* type of a token                                                         *)
RECURSIVE TypesUpTo(_)
TypesUpTo(d) ==
    IF d = 0 THEN {AnyType, StringType, NumberType, <<"Token", BucketToken>>}
    ELSE LET ts == TypesUpTo(d - 1)
         IN  ts
             \cup {NewOptionalType(t) : t \in ts}
             \cup {NewOutputType(t) : t \in ts}
             \cup {NewPromiseType(t) : t \in ts}
             \cup {NewArrayType(t) : t \in ts}
             \cup {NewMapType(t) : t \in ts}
             \cup {NewUnionType(<<t, u>>) : t \in ts, u \in ts}
             \cup {NewObjectType([k \in {"a"} |-> t]) : t \in ts}

Types == TypesUpTo(MaxTypeDepth)

(* Object types over the properties a, b and c *)
ObjectTypes ==
    UNION {[ks -> {StringType, NumberType, BoolType, NewOptionalType(StringType), AnyType}] :
            ks \in SUBSET {"a", "b", "c"}}

(* the state the type operations are applied in: no program is bound *)
InitTypes ==
    /\ Start(<<>>)
    /\ host = [p \in Packages |-> "unasked"]
    /\ run = 1
    /\ prev = NotReturned

machine == <<decls, pc, fileIdx, root, diagnostics, nodes, loadIdx, bindIdx, state,
             inputTypeOf, typeOf, stack, frames, binderRuns, packageSchemas, host,
             hostCalls, ret, run, prev, lastBound>>

(* T.AssignableFrom(Optional(T)) and Optional(T).AssignableFrom(T) *)
OptionalAssignableFrom ==
    /\ applied = <<>>
    /\ \E t \in Types :
        applied' = <<[op |-> "Optional", t |-> t,
                      widens |-> AssignableFrom(NewOptionalType(t), t),
                      narrows |-> AssignableFrom(t, NewOptionalType(t))]>>
    /\ UNCHANGED machine

(* Object(Q).AssignableFrom(Object(P)) *)
ObjectAssignableFrom ==
    /\ applied = <<>>
    /\ \E q \in ObjectTypes, p \in ObjectTypes :
        applied' = <<[op |-> "Object", q |-> q, p |-> p,
                      result |-> AssignableFrom(NewObjectType(q), NewObjectType(p))]>>
    /\ UNCHANGED machine

NextTypes == OptionalAssignableFrom \/ ObjectAssignableFrom

SpecTypes == InitTypes /\ [][NextTypes]_vars

(* T accepts an absent value: it is an Optional, or a Union with an        *)
(* alternative that is Any or accepts one                                  *)
RECURSIVE AcceptsAbsent(_)
AcceptsAbsent(t) ==
    \/ t[1] = "Optional"
    \/ t[1] = "Union" /\ \E i \in 1..Len(t[2]) : t[2][i] = AnyType \/ AcceptsAbsent(t[2][i])

(* C15 as stated: for every type T, Optional(T).AssignableFrom(T) holds    *)
(* and T.AssignableFrom(Optional(T)) does not hold unless T is Any.        *)
C15_OptionalWidening ==
    (applied # <<>> /\ applied[1].op = "Optional") =>
        /\ applied[1].widens
        /\ applied[1].t # AnyType => ~applied[1].narrows

(* C15, amended: Optional(T).AssignableFrom(T) holds for every T, and      *)
(* T.AssignableFrom(Optional(T)) holds exactly when T is Any or T itself   *)
(* accepts an absent value.                                                *)
C15_OptionalWideningUnlessAbsent ==
    (applied # <<>> /\ applied[1].op = "Optional") =>
        /\ applied[1].widens
        /\ applied[1].narrows <=> (applied[1].t = AnyType \/ AcceptsAbsent(applied[1].t))

(* T an Output: Optional(T) accepts T and T does not accept Optional(T) *)
C15_Witness ==
    /\ applied # <<>>
    /\ applied[1].op = "Optional"
    /\ applied[1].t = NewOutputType(StringType)
    /\ applied[1].widens
    /\ ~applied[1].narrows

-----------------------------------------------------------------------------
Required(q) == {k \in DOMAIN q : ~IsOptionalType(q[k])}

Restrict(p, ks) == [k \in DOMAIN p \cap ks |-> p[k]]

(* C16: Object(Q).AssignableFrom(Object(P)) holds exactly when every       *)
(* property required in Q exists in P with an assignable type: properties  *)
(* of P that Q does not have change nothing, a required property of Q that *)
(* P does not have prevents it, so that Object{a: String, b: Number}       *)
(* accepts Object{a: String, b: Number, c: Bool} and is not accepted by it. *)
C16_WidthSubtyping ==
    (applied # <<>> /\ applied[1].op = "Object") =>
        LET q == applied[1].q
            p == applied[1].p
            ab == [k \in {"a", "b"} |-> IF k = "a" THEN StringType ELSE NumberType]
            abc == [k \in {"a", "b", "c"} |->
                        IF k = "a" THEN StringType
                        ELSE IF k = "b" THEN NumberType ELSE BoolType]
        IN  /\ applied[1].result
                <=> \A k \in Required(q) :
                        k \in DOMAIN p /\ AssignableFrom(q[k], p[k])
            /\ applied[1].result
                <=> AssignableFrom(NewObjectType(q), NewObjectType(Restrict(p, DOMAIN q)))
            /\ (\E k \in Required(q) : k \notin DOMAIN p) => ~applied[1].result
            /\ (q = ab /\ p = abc) => applied[1].result
            /\ (q = abc /\ p = ab) => ~applied[1].result

(* Object{a: String, b: Number} applied to Object{a: String, b: Number, c: Bool} *)
C16_Witness ==
    /\ applied # <<>>
    /\ applied[1].op = "Object"
    /\ DOMAIN applied[1].q = {"a", "b"}
    /\ DOMAIN applied[1].p = {"a", "b", "c"}
    /\ applied[1].q["a"] = StringType /\ applied[1].q["b"] = NumberType
    /\ applied[1].p["a"] = StringType /\ applied[1].p["b"] = NumberType
    /\ applied[1].p["c"] = BoolType
    /\ applied[1].result

-----------------------------------------------------------------------------
(* One traversal step resolved on a receiver type.                         *)

MaxWrappers == 2   \* wrappers around a receiver

RECURSIVE WrappedUpTo(_, _)
WrappedUpTo(ts, n) ==
    IF n = 0 THEN ts
    ELSE LET ws == WrappedUpTo(ts, n - 1)
         IN  ws \cup {NewOptionalType(t) : t \in ws}
                \cup {NewOutputType(t) : t \in ws}
                \cup {NewPromiseType(t) : t \in ws}

(* the receivers of a step: what can and cannot be indexed, wrapped *)
Receivers ==
    WrappedUpTo({AnyType, StringType, NewArrayType(StringType), NewMapType(NumberType),
                 NewObjectType([k \in {"a"} |-> NewOutputType(StringType)])},
                MaxWrappers)

(* the step resolved by each revision of the traversal typing *)
BindIndexType ==
    /\ applied = <<>>
    /\ \E receiver \in Receivers,
          index \in {TraverseAttr("a"), TraverseAttr("nope"), TraverseIndex("number", ""),
                     TraverseIndex("bool", ""), TraverseIndex("dynamic", "")} :
        applied' = <<[op |-> "index", receiver |-> receiver, index |-> index,
                      old |-> bindTraversalType(receiver, <<index>>),
                      new |-> bindIndexType4(receiver, ctyTypeToType(index[2]), index, index),
                      types |-> bindTraversalTypes(receiver, <<index>>).types]>>
    /\ UNCHANGED machine

SpecSteps == InitTypes /\ [][BindIndexType]_vars

Wrapper(t) == t[1] \in {"Optional", "Output", "Promise"}

(* the wrappers of a type, outermost first *)
RECURSIVE Wrappers(_)
Wrappers(t) == IF Wrapper(t) THEN <<t[1]>> \o Wrappers(t[2]) ELSE <<>>

StartsWith(s, prefix) ==
    Len(prefix) <= Len(s) /\ \A i \in 1..Len(prefix) : s[i] = prefix[i]

(* C17: a step resolved on Optional(E), Output(E) or Promise(E) gives the  *)
(* same wrapper around what the step gives on E, with the diagnostics the  *)
(* step gives on E, in both revisions; the wrappers of the receiver are    *)
(* the outermost wrappers of the result, in the same order; a number index *)
(* of Output(Array(String)) gives Output(String).                          *)
C17_WrappersKept ==
    (applied # <<>> /\ applied[1].op = "index") =>
        LET receiver == applied[1].receiver
            index == applied[1].index
            inner == bindIndexType(receiver[2], index)
            inner4 == bindIndexType4(receiver[2], ctyTypeToType(index[2]), index, index)
        IN  /\ (Wrapper(receiver) /\ index[2] \in {"number", "string"}) =>
                /\ applied[1].old.t = <<receiver[1], inner.t>>
                /\ applied[1].old.d = inner.d
            /\ Wrapper(receiver) =>
                /\ applied[1].new.t = <<receiver[1], inner4.t>>
                /\ applied[1].new.d = inner4.d
                /\ applied[1].types = <<receiver, <<receiver[1], inner4.t>>>>
            /\ index[2] \in {"number", "string"} =>
                StartsWith(Wrappers(applied[1].old.t), Wrappers(receiver))
            /\ StartsWith(Wrappers(applied[1].new.t), Wrappers(receiver))
            /\ (receiver = NewOutputType(NewArrayType(StringType)) /\ index[2] = "number") =>
                /\ applied[1].old = [t |-> NewOutputType(StringType), d |-> <<>>]
                /\ applied[1].new = [t |-> NewOutputType(StringType), d |-> <<>>]

(* the property a of Optional(Output(Object{a: Output(String)})) *)
C17_Witness ==
    /\ applied # <<>>
    /\ applied[1].op = "index"
    /\ applied[1].receiver
        = NewOptionalType(NewOutputType(NewObjectType([k \in {"a"} |-> NewOutputType(StringType)])))
    /\ applied[1].index = TraverseAttr("a")
    /\ applied[1].old.t = NewOptionalType(NewOutputType(NewOutputType(StringType)))
    /\ applied[1].new.t = NewOptionalType(NewOutputType(NewOutputType(StringType)))

(* C18: whenever a step resolved on a receiver gives a diagnostic, the     *)
(* type it gives is Any, in both revisions, whatever wraps the receiver.   *)
C18_DiagnosedStepIsAny ==
    (applied # <<>> /\ applied[1].op = "index") =>
        /\ applied[1].old.d # <<>> => applied[1].old.t = AnyType
        /\ applied[1].new.d # <<>> => applied[1].new.t = AnyType

-----------------------------------------------------------------------------
IsLiteralString(x) == x.kind = "LiteralValue" /\ x.value[1] = "string"

(* the bound keys and values of a bound object constructor *)
KeysOf(x) == [i \in 1..(Len(x.children) \div 2) |-> x.children[2 * i - 1]]
ValuesOf(x) == [i \in 1..(Len(x.children) \div 2) |-> x.children[2 * i]]

(* C19: a bound object constructor has one key and one value for each item *)
(* of the syntax; when every key is bound to a literal string expression   *)
(* its type is an Object type whose property names are exactly the keys,   *)
(* each with the type of the last value given for it; when a key, at any   *)
(* position, is not, its type is Any.                                      *)
C19_ObjectConsType ==
    (lastBound # <<>> /\ lastBound[1].syntax[1] = "object") =>
        LET x == lastBound[1].x
            ks == KeysOf(x)
            vs == ValuesOf(x)
        IN  /\ x.kind = "ObjectCons"
            /\ Len(x.children) = 2 * Len(lastBound[1].syntax[2])
            /\ IF \A i \in 1..Len(ks) : IsLiteralString(ks[i])
               THEN /\ x.type[1] = "Object"
                    /\ DOMAIN x.type[2] = {ks[i].value[2] : i \in 1..Len(ks)}
                    /\ \A i \in 1..Len(ks) :
                        (\A j \in (i + 1)..Len(ks) : ks[j].value[2] # ks[i].value[2])
                            => x.type[2][ks[i].value[2]] = vs[i].type
               ELSE x.type = AnyType

(* two items: a literal string key, then a key that is not one *)
C19_Witness ==
    /\ lastBound # <<>>
    /\ lastBound[1].syntax[1] = "object"
    /\ Len(KeysOf(lastBound[1].x)) = 2
    /\ IsLiteralString(KeysOf(lastBound[1].x)[1])
    /\ KeysOf(lastBound[1].x)[2].kind = "ScopeTraversal"
    /\ ValuesOf(lastBound[1].x)[1].type = StringType
    /\ lastBound[1].x.type = AnyType

-----------------------------------------------------------------------------
(* the body of resource s is one attribute set to a form with no binding rule *)
HoldsForm(s) ==
    /\ IsResource(s)
    /\ Len(decls[s].attrs) = 1
    /\ decls[s].attrs[1].expr[1] \in NotImplementedForms

(* C20: when a resource whose attribute is a binary-op, conditional, for,  *)
(* index, splat, unary-op or anonymous-symbol form is bound, the form is    *)
(* bound to an Error expression of type Any with one 'NYI' diagnostic on   *)
(* the form, the body around it is bound to an object constructor with the *)
(* attribute typed Any, and the resource gets its types and is bound;      *)
(* BindProgram always has a step to take until it returns, and in the      *)
(* Program it returns every declared node is bound, its binder run once.   *)
C20_FormsDegrade ==
    /\ [][\A s \in Ids :
            (Finishes(s) /\ KnownResource(s) /\ HoldsForm(s)) =>
                LET form == decls[s].attrs[1].expr
                    body == bindResourceTypes(Binder, s).body[1]
                    e == ValuesOf(body)[1]
                IN  /\ e.kind = "Error"
                    /\ e.type = AnyType
                    /\ e.syntax = form
                    /\ body.kind = "ObjectCons"
                    /\ body.type = NewObjectType([k \in {decls[s].attrs[1].name} |-> AnyType])
                    /\ CountDiagAt(diagnostics', "NYI", form)
                            = CountDiagAt(diagnostics, "NYI", form) + 1
                    /\ typeOf'[s][1] = "Object"
                    /\ inputTypeOf'[s] = SchemaInputType(s)
                    /\ state'[s] = bound]_vars
    /\ [](Returned \/ Declaring \/ Sorting \/ Loading \/ Calling \/ Finishing \/ Returning)
    /\ [](ReturnedProgram => \A n \in Declared : state[n] = bound /\ binderRuns[n] = 1)

(* a resource set to a splat form, bound, and the resource after it bound  *)
(* too, in a returned Program                                              *)
C20_Witness ==
    /\ ReturnedProgram
    /\ \E s, n \in Declared :
        /\ HoldsForm(s)
        /\ decls[s].attrs[1].expr[1] = "splat"
        /\ KnownResource(s)
        /\ StartByte(s) < StartByte(n)
        /\ state[s] = bound /\ state[n] = bound
        /\ typeOf[s][1] = "Object" /\ typeOf[n][1] = "Object"
        /\ CountDiagAt(ret.diags, "NYI", decls[s].attrs[1].expr) = 1

-----------------------------------------------------------------------------
(* The bind state of the nodes across the calls of bindNode.               *)

MovesForward(n) ==
    \/ state'[n] = state[n]
    \/ state[n] = unbound /\ state'[n] = binding
    \/ state[n] = binding /\ state'[n] = bound

(* C21: the bind state of every node only moves unbound -> binding ->      *)
(* bound: no step of a bind, a re-entrant call of bindNode on a cycle or a *)
(* repeated call on a bound node included, takes a node back to an earlier *)
(* state or from unbound to bound at once.                                 *)
C21_StateMovesForward == [][\A n \in Ids : MovesForward(n)]_vars

(* a and b refer to each other: both were called again while binding or    *)
(* bound, and both are bound while the binding loop still runs             *)
C21_Witness ==
    /\ pc = "bind"
    /\ HasDiag(diagnostics, "circular reference to node")
    /\ \E n, m \in Declared :
        /\ n # m /\ RefersTo(n, m) /\ RefersTo(m, n)
        /\ state[n] = bound /\ state[m] = bound

-----------------------------------------------------------------------------
(* The node a call of bindNode finds in the binding state.                 *)

(* the node the next call of bindNode is on *)
Callee == IF frames = <<>> THEN nodes[bindIdx] ELSE Head(frames[Len(frames)].deps)

(* a call of bindNode found the node binding and reported it *)
FoundBinding(ds, n) == CountDiagAt(ds, "circular reference to node", NodeRange(n)) > 0

(* C22 as stated: a node that bindNode found in the binding state is still *)
(* binding, not bound, when BindProgram returns.                           *)
C22_CycleTargetStaysBinding ==
    ReturnedProgram =>
        \A n \in Declared : FoundBinding(ret.diags, n) => state[n] = binding

(* C22, amended: the call of bindNode that finds a node in the binding     *)
(* state leaves it binding; the call that set it binding completes it, and *)
(* it is bound when BindProgram returns a Program.                         *)
C22_CycleTargetBoundAtReturn ==
    /\ [][(Calling /\ state[Callee] = binding) => state'[Callee] = binding]_vars
    /\ [](ReturnedProgram =>
            \A n \in Declared : FoundBinding(ret.diags, n) => state[n] = bound)

(* a node that refers to itself, found binding by its own call, returned bound *)
C22_Witness ==
    /\ ReturnedProgram
    /\ \E n \in Declared :
        RefersTo(n, n) /\ FoundBinding(ret.diags, n) /\ state[n] = bound

-----------------------------------------------------------------------------
(* The dependencies of a node when the binder of its kind runs.            *)

(* C23: when the binder of a node's kind is about to run, every declared   *)
(* node the node's syntax names is bound, or is in the binding state and   *)
(* on the active stack (a cycle); none is still unbound.                   *)
C23_DependenciesEntered ==
    Finishing =>
        \A m \in Declared :
            RefersTo(frames[Len(frames)].node, m) =>
                \/ state[m] = bound
                \/ state[m] = binding /\ m \in Range(stack)

(* the binder of a node is about to run with one dependency bound and      *)
(* another, which depends on the node, binding below it on the stack       *)
C23_Witness ==
    /\ Finishing
    /\ \E m, k \in Declared \ {frames[Len(frames)].node} :
        /\ RefersTo(frames[Len(frames)].node, m) /\ state[m] = bound
        /\ RefersTo(frames[Len(frames)].node, k) /\ state[k] = binding
        /\ k \in Range(stack)

-----------------------------------------------------------------------------
(* How often the binder of a node's kind runs, and what happens to a node  *)
(* once it is bound.                                                       *)

StaysAsBound(n) ==
    state[n] = bound =>
        /\ state'[n] = bound
        /\ typeOf'[n] = typeOf[n]
        /\ inputTypeOf'[n] = inputTypeOf[n]
        /\ binderRuns'[n] = binderRuns[n]

(* C24: in a BindProgram call that returns a Program the binder of the     *)
(* kind of each declared node has run exactly once, whatever the nodes     *)
(* that depend on it and whatever the cycles, and it never runs a second   *)
(* time; once a node is bound its state and its types are not changed.     *)
C24_BoundOnce ==
    /\ [](\A n \in Ids : binderRuns[n] <= 1)
    /\ [](ReturnedProgram => \A n \in Declared : binderRuns[n] = 1)
    /\ [][\A n \in Ids : StaysAsBound(n)]_vars

(* a typed resource two other resources depend on, one of them in a cycle  *)
(* with it, in a returned Program                                          *)
C24_Witness ==
    /\ ReturnedProgram
    /\ \E n, m, k \in Declared :
        /\ n # m /\ n # k /\ m # k
        /\ RefersTo(m, n) /\ RefersTo(k, n) /\ RefersTo(n, m)
        /\ typeOf[n] # NoType
        /\ binderRuns[n] = 1

-----------------------------------------------------------------------------
(* The dependency list of a node.  The last declaration of a program names *)
(* declarations of any file, itself, and a name not declared, as roots of  *)
(* scope traversals or as function names, in any order and more than once. *)

InitDeps ==
    /\ \E n \in 1..MaxNodes, call \in BOOLEAN :
        \E fl \in [1..n -> 1..MaxFiles], rs \in SeqsUpTo(1..(n + 1), MaxRefs) :
            LET ref(k) == IF call THEN FunctionCall(AllNames[k], <<>>)
                          ELSE ScopeTraversal(AllNames[k], <<>>)
                value(i) == IF i < n THEN StringLit("v")
                            ELSE TupleCons([j \in 1..Len(rs) |-> ref(rs[j])])
            IN  Start([i \in 1..n |->
                    Decl(i, AllNames[i], "local", fl[i], <<>>,
                         AttrsFor("local", AllNames[i], value(i)))])
    /\ host = [p \in Packages |-> "unasked"]
    /\ run = 1
    /\ prev = NotReturned

SpecDeps == InitDeps /\ [][Next]_vars

NamedBy(n) ==
    {m \in Declared \ {n} :
        \E i \in 1..Len(decls[n].attrs) :
            decls[m].name \in Range(referenceNames(decls[n].attrs[i].expr))}

InSourceOrder(ns) == \A k, l \in 1..Len(ns) : k < l => SourceBefore(ns[k], ns[l])

(* C25: the dependency list computed for a node holds exactly the declared *)
(* nodes, other than the node itself, that the node's syntax names as a    *)
(* function name or as the root of a scope traversal, each once, and is in *)
(* source order: by file name, then by start offset.                       *)
C25_DependencyList ==
    pc = "bind" =>
        \A n \in Declared :
            LET deps == getDependencies(root, n)
            IN  /\ Range(deps) = NamedBy(n)
                /\ Len(deps) = Cardinality(NamedBy(n))
                /\ InSourceOrder(deps)

-----------------------------------------------------------------------------
(* The active stack and the nodes in the binding state.                    *)

(* C26: in every state of a bind the stack holds the nodes in the binding  *)
(* state, each once, in the order they entered it, which is the order of   *)
(* the active calls of bindNode; a node is binding exactly when it is on   *)
(* the stack.  When BindProgram has returned a Program the stack is empty  *)
(* and no node is binding.                                                 *)
C26_StackHoldsBinding ==
    /\ stack = [i \in 1..Len(frames) |-> frames[i].node]
    /\ \A i, j \in 1..Len(stack) : stack[i] = stack[j] => i = j
    /\ \A n \in Ids : state[n] = binding <=> n \in Range(stack)
    /\ ReturnedProgram => stack = <<>> /\ \A n \in Ids : state[n] # binding

(* two nodes on the stack after the upper one has called bindNode on the   *)
(* lower one and found it binding                                          *)
C26_Witness ==
    /\ Len(stack) = 2
    /\ state[stack[1]] = binding /\ state[stack[2]] = binding
    /\ FoundBinding(diagnostics, stack[1])
    /\ \E n \in Declared : state[n] = bound

-----------------------------------------------------------------------------
(* Schema loading and node binding.                                        *)

Entered == \E n \in Ids : state[n] # unbound

(* C27: loading schemas and binding nodes are two phases of BindProgram:   *)
(* a step that calls the provider host or changes the schema cache is      *)
(* taken while every node is unbound and leaves every node unbound, so     *)
(* every host call comes before the first node leaves the unbound state.   *)
C27_LoadThenBind ==
    /\ [][Entered => /\ hostCalls' = hostCalls
                     /\ host' = host
                     /\ packageSchemas' = packageSchemas]_vars
    /\ [][(hostCalls' # hostCalls \/ packageSchemas' # packageSchemas)
            => \A n \in Ids : state'[n] = unbound]_vars

(* the schemas of two packages were loaded, one call each, and the nodes   *)
(* are being bound                                                         *)
C27_Witness ==
    /\ pc = "bind"
    /\ Entered
    /\ hostCalls["aws"] = 1 /\ hostCalls["gcp"] = 1
    /\ packageSchemas = {"aws", "gcp"}

-----------------------------------------------------------------------------
(* The ordering sourceOrderNodes sorts by.                                 *)

(* C28: the ordering that puts the nodes in source order is a strict total *)
(* order, by file name and then by start offset: of two distinct nodes,    *)
(* nodes of different files included, exactly one orders before the other, *)
(* so the sorted node list does not depend on the order the nodes came in. *)
C28_StrictTotalOrder ==
    pc \in {"load", "bind", "done"} =>
        /\ \A n, m \in Range(nodes) :
            /\ n # m => ~(lessNodes[<<n, m>>] /\ lessNodes[<<m, n>>])
            /\ lessNodes[<<n, m>>] <=> SourceBefore(n, m)
        /\ \A order \in Perms(Declared) : sourceOrderNodes(order) = nodes

-----------------------------------------------------------------------------
(* The scope stack: scopes.push, scopes.pop, scope.define on the table on  *)
(* top and scopes.bindReference, applied one after the other to a stack    *)
(* that starts empty.  The stack is kept with the operation applied last.  *)

MaxScopes == 2   \* tables on the scope stack

ScopeStack == IF applied = <<>> THEN <<>> ELSE applied[1].stack

(* scopes.bindReference: the tables from the first pushed to the last; def *)
(* is 0 for the nil Node                                                   *)
RECURSIVE bindReference(_, _)
bindReference(tables, name) ==
    IF Len(tables) = 0 THEN [def |-> 0, ok |-> FALSE]
    ELSE IF name \in DOMAIN Head(tables)
    THEN [def |-> Head(tables)[name], ok |-> TRUE]
    ELSE bindReference(Tail(tables), name)

Push ==
    /\ Len(ScopeStack) < MaxScopes
    /\ applied' = <<[op |-> "push", stack |-> Append(ScopeStack, [k \in {} |-> 0]),
                     name |-> "", def |-> 0, ok |-> TRUE]>>
    /\ UNCHANGED machine

Pop ==
    /\ Len(ScopeStack) > 0
    /\ applied' = <<[op |-> "pop", stack |-> SubSeq(ScopeStack, 1, Len(ScopeStack) - 1),
                     name |-> "", def |-> 0, ok |-> TRUE]>>
    /\ UNCHANGED machine

Define ==
    /\ Len(ScopeStack) > 0
    /\ \E name \in {"a", "b"}, node \in 1..2 :
        LET r == define(ScopeStack[Len(ScopeStack)], name, node)
        IN  applied' = <<[op |-> "define",
                          stack |-> [ScopeStack EXCEPT ![Len(ScopeStack)] = r.scope],
                          name |-> name, def |-> node, ok |-> r.ok]>>
    /\ UNCHANGED machine

BindReference ==
    /\ \E name \in {"a", "b"} :
        LET r == bindReference(ScopeStack, name)
        IN  applied' = <<[op |-> "bindReference", stack |-> ScopeStack,
                          name |-> name, def |-> r.def, ok |-> r.ok]>>
    /\ UNCHANGED machine

SpecScopes == InitTypes /\ [][Push \/ Pop \/ Define \/ BindReference]_vars

(* the tables of the stack that define the name, by position *)
Defining(tables, name) == {i \in 1..Len(tables) : name \in DOMAIN tables[i]}

Innermost(tables, name) ==
    tables[CHOOSE i \in Defining(tables, name) : \A j \in Defining(tables, name) : j <= i][name]

(* C29: a lookup in the scope stack returns the definition of the          *)
(* innermost table that defines the name, the one pushed last and not yet  *)
(* popped, so an inner definition shadows an outer one of the same name,   *)
(* and fails when no table defines it; defining a name a table already     *)
(* holds fails and leaves the table as it was.                             *)
C29_InnermostDefinition ==
    /\ []((applied # <<>> /\ applied[1].op = "bindReference") =>
            IF Defining(applied[1].stack, applied[1].name) = {}
            THEN ~applied[1].ok
            ELSE /\ applied[1].ok
                 /\ applied[1].def = Innermost(applied[1].stack, applied[1].name))
    /\ [][(applied # <<>> /\ applied'[1].op = "define" /\ ~applied'[1].ok)
            => applied'[1].stack = applied[1].stack]_vars

-----------------------------------------------------------------------------
(* Blocks with any number of labels: a resource, config variable or output *)
(* variable with up to MaxLabels labels, the config or outputs block       *)
(* around a variable with or without a label, and a local after it.        *)

MaxLabels == 3   \* labels of a block

InitLabels ==
    /\ \E kind \in Kinds \ {"local"}, own \in 0..MaxLabels, outer \in 0..1, n \in 1..2 :
        /\ kind = "resource" => outer = 0
        /\ Start([i \in 1..n |->
                IF i = 1
                THEN [labels |-> own, outerLabels |-> outer]
                     @@ Decl(1, "a", kind, 1,
                             IF kind = "resource" THEN BucketToken ELSE <<>>, <<>>)
                ELSE Decl(2, "b", "local", 1, <<>>, AttrsFor("local", "b", StringLit("v")))])
    /\ host = [p \in Packages |-> "unasked"]
    /\ run = 1
    /\ prev = NotReturned

SpecLabels == InitLabels /\ [][Next]_vars

WrongLabels(i) ==
    \/ decls[i].kind = "resource" /\ labelsOf(i).own # 2
    \/ decls[i].kind \in {"config", "output"} /\ labelsOf(i).own > 1

HasLabelsDiag(ds, i) ==
    \E k \in 1..Len(ds) :
        /\ ds[k][2] = NodeRange(i)
        /\ ds[k][1] \in {"resource variables must have exactly two labels",
                         "config variables must have no more than one label",
                         "output variables must have no more than one label"}

(* C30: a block with the wrong number of labels, a resource block with     *)
(* zero, one or three labels or a config or output variable with more than *)
(* one, does not abort the bind: unless a schema fails to load, BindProgram *)
(* returns a Program, a nil error and a diagnostic about the labels.       *)
C30_WrongLabelsReported ==
    (Returned /\ ret.err \notin HostFailures) =>
        \A i \in Ids :
            WrongLabels(i) =>
                /\ ret.program
                /\ ret.err = "nil"
                /\ HasLabelsDiag(ret.diags, i)

====
